---- MODULE Spec2Model ----
(***************************************************************************)
(* Betlang: the tree-walking evaluator (compiler/bet-eval) as a stack      *)
(* machine, the weighted choice of the JavaScript runtime preamble and the *)
(* JavaScript code generator (compiler/bet-codegen), and the Ternary type  *)
(* of the runtime (runtime/bet-rt); further the inference functions of the *)
(* preamble (`infer`), the queue and the map merge of bet-rt (`data`), and *)
(* the word lookup of the language server, tools/bet-lsp (`doc`).  `host`  *)
(* says which of them a behaviour exercises; after eval has returned, the  *)
(* same expression may be given to the code generator and the code         *)
(* produced run, so the two can be compared.                               *)
(*                                                                         *)
(* eval is recursive in the source.  Here every activation of eval is a    *)
(* frame on `stack`; a frame records the expression, how many sub-         *)
(* evaluations have returned (pc), their values (vals) and the handler's   *)
(* locals (aux).  `ret` holds the CompileResult handed back by the call    *)
(* that has just returned.  The `&mut ValueEnv` threaded through eval is   *)
(* the top of `envs`; apply pushes its `new_env` and pops it on return.    *)
(* Closures are Arc-shared, so they live in the heap `closures`.           *)
(***************************************************************************)
EXTENDS Integers, Sequences, FiniteSets, TLC

VARIABLES host, expr0, env0, stack, envs, closures, ret, status, js, rt, cg, infer, data, doc

vars == <<host, expr0, env0, stack, envs, closures, ret, status, js, rt, cg, infer, data, doc>>

evalVars == <<expr0, env0, stack, envs, closures, ret, status>>

-----------------------------------------------------------------------------
(* Bounds *)

\* an f64 is held as a whole number of quanta of 1/FloatDen
FloatDen == 2

\* machine word width, scaled down from 64 bits
WordBits == 16

\* largest count literal given to Parallel
MaxParallel == 2

\* most items in a module given to codegen_module
MaxItems == 3

\* longest chain of Ternary method calls
MaxCalls == 2

\* width of an Int (i64), scaled down from 64 bits
IntBits == 8

RECURSIVE Pow2(_)
Pow2(n) == IF n = 0 THEN 1 ELSE 2 * Pow2(n - 1)

IsizeMax == Pow2(WordBits - 1) - 1

I64Min == 0 - Pow2(IntBits - 1)

I64Max == Pow2(IntBits - 1) - 1

-----------------------------------------------------------------------------
(* Values and results *)

NONE == [tag |-> "None", val |-> 0]

ValueUnit == [tag |-> "Unit", val |-> 0]

ValueBool(b) == [tag |-> "Bool", val |-> b]

ValueTernary(t) == [tag |-> "Ternary", val |-> t]

ValueInt(i) == [tag |-> "Int", val |-> i]

ValueFloat(q) == [tag |-> "Float", val |-> q]

\* an f64 that is infinite or NaN; val keeps `f != 0.0` true
ValueFloatNonFinite(kind) == [tag |-> "Float", val |-> 1, nonfinite |-> kind]

ValueString(s) == [tag |-> "String", val |-> s]

ValueList(l) == [tag |-> "List", val |-> l]

ValueTuple(l) == [tag |-> "Tuple", val |-> l]

ValueClosure(ref) == [tag |-> "Closure", val |-> ref]

UndefinedVariable(name) == [tag |-> "Err", val |-> [kind |-> "UndefinedVariable", msg |-> name]]

Runtime(message) == [tag |-> "Err", val |-> [kind |-> "Runtime", msg |-> message]]

IsErr(r) == r.tag = "Err"

\* the thread unwinds: an arithmetic panic inside eval
PANIC == [tag |-> "Panic", val |-> 0]

-----------------------------------------------------------------------------
(* Expressions and patterns *)

ExprUnit == [op |-> "Unit"]

ExprBool(b) == [op |-> "Bool", b |-> b]

ExprInt(i) == [op |-> "Int", i |-> i]

ExprFloat(q) == [op |-> "Float", f |-> q]

ExprString(s) == [op |-> "String", s |-> s]

ExprTernary(t) == [op |-> "Ternary", t |-> t]

ExprVar(x) == [op |-> "Var", sym |-> x]

ExprBet(a, b, c) == [op |-> "Bet", alternatives |-> <<a, b, c>>]

ExprWeightedBet(a, wa, b, wb, c, wc) == [op |-> "WeightedBet", alternatives |-> <<<<a, wa>>, <<b, wb>>, <<c, wc>>>>]

ExprConditionalBet(c, t, f0, f1, f2) == [op |-> "ConditionalBet", condition |-> c, if_true |-> t, if_false |-> <<f0, f1, f2>>]

ExprLet(p, v, b, rec) == [op |-> "Let", pattern |-> p, value |-> v, body |-> b, is_rec |-> rec]

ExprIf(c, t, e) == [op |-> "If", condition |-> c, then_branch |-> t, else_branch |-> e]

ExprLambda(ps, b) == [op |-> "Lambda", params |-> ps, body |-> b]

ExprApp(f, as) == [op |-> "App", func |-> f, args |-> as]

ExprSample(d) == [op |-> "Sample", inner |-> d]

ExprObserve(d, v) == [op |-> "Observe", dist |-> d, value |-> v]

\* Expr::Infer(InferExpr { method, params, model }); params holds <<key, value>>
ExprInfer(method, params, model) == [op |-> "Infer", method |-> method, params |-> params, model |-> model]

ExprTuple(es) == [op |-> "Tuple", elems |-> es]

ExprList(es) == [op |-> "List", elems |-> es]

ExprParallel(n, b) == [op |-> "Parallel", n_expr |-> n, body |-> b]

ExprAnnotate(e, ty) == [op |-> "Annotate", inner |-> e, ty |-> ty]

ExprHole == [op |-> "Hole"]

ExprMatch(s) == [op |-> "Match", scrutinee |-> s]

ExprBinOp(bop, l, r) == [op |-> "BinOp", bop |-> bop, lhs |-> l, rhs |-> r]

ExprUnOp(uop, e) == [op |-> "UnOp", uop |-> uop, operand |-> e]

\* MatchArm { pattern, guard: Option<..>, body }; guard is <<>> or <<g>>
MatchArm(p, g, b) == [pattern |-> p, guard |-> g, body |-> b]

\* Expr::Match(MatchExpr { scrutinee, arms })
ExprMatchArms(s, arms) == [op |-> "Match", scrutinee |-> s, arms |-> arms]

PatternVar(x) == [p |-> "Var", sym |-> x]

PatternWildcard == [p |-> "Wildcard"]

PatternTuple(ps) == [p |-> "Tuple", pats |-> ps]

PatternLiteral(i) == [p |-> "Literal", lit |-> i]

-----------------------------------------------------------------------------
(* ValueEnv: a stack of frames, each a map from names to values *)

EnvNew == << <<>> >>

EnvBind(env, name, val) ==
    LET n == Len(env)
        fr == env[n]
    IN  [env EXCEPT ![n] = [k \in DOMAIN fr \cup {name} |-> IF k = name THEN val ELSE fr[k]]]

RECURSIVE EnvLookupFrom(_, _, _)
EnvLookupFrom(env, i, name) ==
    IF i = 0 THEN NONE
    ELSE IF name \in DOMAIN env[i] THEN env[i][name]
    ELSE EnvLookupFrom(env, i - 1, name)

EnvLookup(env, name) == EnvLookupFrom(env, Len(env), name)

-----------------------------------------------------------------------------
(* Helpers of the evaluator *)

LiteralValue(e) ==
    CASE e.op = "Unit" -> ValueUnit
      [] e.op = "Bool" -> ValueBool(e.b)
      [] e.op = "Int" -> ValueInt(e.i)
      [] e.op = "Float" -> ValueFloat(e.f)
      [] e.op = "String" -> ValueString(e.s)
      [] e.op = "Ternary" -> ValueTernary(CASE e.t = "True" -> "True"
                                            [] e.t = "False" -> "False"
                                            [] e.t = "Unknown" -> "Unknown")

is_truthy(val) ==
    CASE val.tag = "Bool" -> val.val
      [] val.tag = "Int" -> val.val # 0
      [] val.tag = "Float" -> val.val # 0
      [] val.tag = "Ternary" /\ val.val = "True" -> TRUE
      [] val.tag = "Unit" -> FALSE
      [] OTHER -> TRUE

pattern_name(pat) ==
    CASE pat.p = "Var" -> pat.sym
      [] pat.p = "Wildcard" -> "_"
      [] OTHER -> "_"

\* bind_pattern returns the error (NONE for Ok(())) and the environment it
\* leaves behind; bindings made before a failure stay in the environment
RECURSIVE bind_pattern(_, _, _)
RECURSIVE bind_pattern_zip(_, _, _, _)
bind_pattern(pat, val, env) ==
    CASE pat.p = "Var" -> [err |-> NONE, env |-> EnvBind(env, pat.sym, val)]
      [] pat.p = "Wildcard" -> [err |-> NONE, env |-> env]
      [] pat.p = "Tuple" ->
            IF val.tag = "Tuple"
            THEN IF Len(pat.pats) # Len(val.val)
                 THEN [err |-> Runtime("Tuple pattern length mismatch"), env |-> env]
                 ELSE bind_pattern_zip(pat.pats, val.val, 1, env)
            ELSE [err |-> Runtime("Expected tuple value"), env |-> env]
      [] OTHER -> [err |-> NONE, env |-> env]

bind_pattern_zip(pats, vals, i, env) ==
    IF i > Len(pats) THEN [err |-> NONE, env |-> env]
    ELSE LET b == bind_pattern(pats[i], vals[i], env)
         IN  IF b.err # NONE THEN b
             ELSE bind_pattern_zip(pats, vals, i + 1, b.env)

\* apply: new_env = closure.env.clone() with the parameters zipped with the
\* arguments bound one after the other
RECURSIVE apply_bind(_, _, _, _)
apply_bind(env, params, args, i) ==
    IF i > Len(params) \/ i > Len(args) THEN env
    ELSE apply_bind(EnvBind(env, params[i], args[i]), params, args, i + 1)

apply_new_env(closure, args) == apply_bind(closure.env, closure.params, args, 1)

\* eval_weighted_bet: the weight of an alternative as f64 quanta
weight_f64(v) ==
    CASE v.tag = "Float" -> v.val
      [] v.tag = "Int" -> v.val * FloatDen
      [] OTHER -> FloatDen

RECURSIVE SumFrom(_, _)
SumFrom(ws, i) == IF i > Len(ws) THEN 0 ELSE ws[i] + SumFrom(ws, i + 1)

\* gen::<f64>() * total: gen is in [0, 1).  r is held in half quanta, which
\* separates every real r from every sum of weights it is compared with
gen_times_total(total) ==
    IF total > 0 THEN 0 .. (2 * total - 1)
    ELSE IF total = 0 THEN {0}
    ELSE (2 * total + 1) .. 0

\* the loop with `r <= cumul` in place of `r < cumul`
RECURSIVE weighted_loop_le(_, _, _, _)
weighted_loop_le(weights, r, i, cumul) ==
    IF i > Len(weights) THEN Len(weights)
    ELSE IF r <= 2 * (cumul + weights[i]) THEN i
    ELSE weighted_loop_le(weights, r, i + 1, cumul + weights[i])

\* the loop `cumul += w; if r < cumul { return i }` and the fall-through to
\* the last alternative; answers the 1-based index of the returned value
RECURSIVE weighted_loop(_, _, _, _)
weighted_loop(weights, r, i, cumul) ==
    IF i > Len(weights) THEN Len(weights)
    ELSE IF r < 2 * (cumul + weights[i]) THEN i
    ELSE weighted_loop(weights, r, i + 1, cumul + weights[i])

\* `n as usize`
as_usize(n) == n % Pow2(WordBits)

Abs(n) == IF n < 0 THEN 0 - n ELSE n

\* Rust `a / b` and `a % b` on integers truncate toward zero
TruncDiv(a, b) == IF (a < 0) = (b < 0) THEN Abs(a) \div Abs(b) ELSE 0 - (Abs(a) \div Abs(b))

\* `a + b`, `a - b`, `a * b`, `-i` on i64: a result out of range panics when
\* the build checks overflow and wraps when it does not
int_arith(n) ==
    IF I64Min <= n /\ n <= I64Max THEN {ValueInt(n)}
    ELSE {PANIC, ValueInt(((n - I64Min) % Pow2(IntBits)) + I64Min)}

\* `a / b` and `a * b` on f64, in quanta; a zero divisor gives inf or NaN
float_mul(a, b) == ValueFloat(TruncDiv(a * b, FloatDen))

float_div(a, b) ==
    IF b # 0 THEN ValueFloat(TruncDiv(a * FloatDen, b))
    ELSE ValueFloatNonFinite(IF a = 0 THEN "nan" ELSE IF a > 0 THEN "inf" ELSE "-inf")

IsFinite(v) == "nonfinite" \notin DOMAIN v

\* eval_binop: the set of outcomes the build can produce (a value, an Err,
\* PANIC).  Arithmetic on an infinite or NaN operand is not modelled: no
\* program explored feeds such a value to an operator.
eval_binop(bop, lhs, rhs) ==
    LET a == lhs.val
        b == rhs.val
        ints == lhs.tag = "Int" /\ rhs.tag = "Int"
        floats == lhs.tag = "Float" /\ rhs.tag = "Float" /\ IsFinite(lhs) /\ IsFinite(rhs)
        int_float == lhs.tag = "Int" /\ rhs.tag = "Float" /\ IsFinite(rhs)
        float_int == lhs.tag = "Float" /\ rhs.tag = "Int" /\ IsFinite(lhs)
        bools == lhs.tag = "Bool" /\ rhs.tag = "Bool"
    IN  CASE bop = "Add" /\ ints -> int_arith(a + b)
          [] bop = "Sub" /\ ints -> int_arith(a - b)
          [] bop = "Mul" /\ ints -> int_arith(a * b)
          [] bop = "Div" /\ ints ->
                IF b = 0 THEN {Runtime("Division by zero")}
                ELSE IF a = I64Min /\ b = -1 THEN {PANIC}
                ELSE {ValueInt(TruncDiv(a, b))}
          [] bop = "Mod" /\ ints ->
                IF b = 0 \/ (a = I64Min /\ b = -1) THEN {PANIC}
                ELSE {ValueInt(a - b * TruncDiv(a, b))}
          [] bop = "Add" /\ floats -> {ValueFloat(a + b)}
          [] bop = "Sub" /\ floats -> {ValueFloat(a - b)}
          [] bop = "Mul" /\ floats -> {float_mul(a, b)}
          [] bop = "Div" /\ floats -> {float_div(a, b)}
          [] bop = "Add" /\ int_float -> {ValueFloat(a * FloatDen + b)}
          [] bop = "Add" /\ float_int -> {ValueFloat(a + b * FloatDen)}
          [] bop = "Mul" /\ int_float -> {float_mul(a * FloatDen, b)}
          [] bop = "Mul" /\ float_int -> {float_mul(a, b * FloatDen)}
          [] bop = "Eq" /\ (ints \/ floats) -> {ValueBool(a = b)}
          [] bop = "Ne" /\ ints -> {ValueBool(a # b)}
          [] bop = "Lt" /\ (ints \/ floats) -> {ValueBool(a < b)}
          [] bop = "Le" /\ (ints \/ floats) -> {ValueBool(a <= b)}
          [] bop = "Gt" /\ (ints \/ floats) -> {ValueBool(a > b)}
          [] bop = "Ge" /\ (ints \/ floats) -> {ValueBool(a >= b)}
          [] bop = "And" /\ bools -> {ValueBool(a /\ b)}
          [] bop = "Or" /\ bools -> {ValueBool(a \/ b)}
          [] bop = "Cons" /\ rhs.tag = "List" -> {ValueList(<<lhs>> \o b)}
          [] bop = "Append" /\ lhs.tag = "List" /\ rhs.tag = "List" -> {ValueList(a \o b)}
          [] IsFinite(lhs) /\ IsFinite(rhs) -> {Runtime("Unsupported operation")}

\* eval_unop
eval_unop(uop, v) ==
    CASE uop = "Neg" /\ v.tag = "Int" -> int_arith(0 - v.val)
      [] uop = "Neg" /\ v.tag = "Float" /\ IsFinite(v) -> {ValueFloat(0 - v.val)}
      [] uop = "Neg" /\ v.tag = "Float" ->
            {ValueFloatNonFinite(CASE v.nonfinite = "inf" -> "-inf"
                                   [] v.nonfinite = "-inf" -> "inf"
                                   [] v.nonfinite = "nan" -> "nan")}
      [] uop = "Not" /\ v.tag = "Bool" -> {ValueBool(~v.val)}
      [] uop = "Not" /\ v.tag = "Ternary" ->
            {ValueTernary(CASE v.val = "True" -> "False"
                            [] v.val = "False" -> "True"
                            [] v.val = "Unknown" -> "Unknown")}
      [] OTHER -> {Runtime("Unsupported unary operation")}

LiteralOps == {"Unit", "Bool", "Int", "Float", "String", "Ternary"}

\* the variants that eval leaves to its catch-all arm
CatchAllOps == {"Match", "Record", "Field", "Index", "Observe", "Infer", "Do", "Hole", "Error"}

-----------------------------------------------------------------------------
(* The machine *)

Top == stack[Len(stack)]

Env == envs[Len(envs)]

Frame(e) == [expr |-> e, pc |-> 0, vals |-> <<>>, aux |-> <<>>]

Pop(s) == SubSeq(s, 1, Len(s) - 1)

SetTop(s, f) == [s EXCEPT ![Len(s)] = f]

At(op) ==
    /\ host = "eval"
    /\ status = "running"
    /\ stack # <<>>
    /\ ret = NONE
    /\ Top.expr.op = op

\* eval(e, env) is entered
Call(e) ==
    /\ stack' = Append(stack, Frame(e))
    /\ ret' = NONE

\* the running eval returns r to its caller
Return(r) ==
    /\ stack' = Pop(stack)
    /\ ret' = r

-----------------------------------------------------------------------------
(* eval, one action per arm *)

\* `let v = eval(..)?` : the Ok value of the call that returned is taken
Receive ==
    /\ host = "eval" /\ status = "running"
    /\ stack # <<>>
    /\ ret # NONE /\ ~IsErr(ret)
    /\ stack' = SetTop(stack, [Top EXCEPT !.vals = Append(@, ret), !.pc = @ + 1])
    /\ ret' = NONE
    /\ UNCHANGED <<host, expr0, env0, envs, closures, status, js, rt, cg, infer, data, doc>>

\* `eval(..)?` : an Err leaves the calling eval at once; apply drops new_env
PropagateErr ==
    /\ host = "eval" /\ status = "running"
    /\ stack # <<>>
    /\ IsErr(ret)
    /\ stack' = Pop(stack)
    /\ envs' = IF Top.expr.op = "App" /\ Top.pc = Len(Top.expr.args) + 1
               THEN Pop(envs) ELSE envs
    /\ UNCHANGED <<host, expr0, env0, closures, ret, status, js, rt, cg, infer, data, doc>>

\* the outermost eval has returned to the caller
Finish ==
    /\ host = "eval" /\ status = "running"
    /\ stack = <<>>
    /\ ret # NONE
    /\ status' = "done"
    /\ UNCHANGED <<host, expr0, env0, stack, envs, closures, ret, js, rt, cg, infer, data, doc>>

EvalLiteral ==
    /\ host = "eval" /\ status = "running" /\ stack # <<>> /\ ret = NONE
    /\ Top.expr.op \in LiteralOps
    /\ Return(LiteralValue(Top.expr))
    /\ UNCHANGED <<host, expr0, env0, envs, closures, status, js, rt, cg, infer, data, doc>>

EvalVar ==
    /\ At("Var")
    /\ LET name == Top.expr.sym
           v == EnvLookup(Env, name)
       IN  Return(IF v = NONE THEN UndefinedVariable(name) ELSE v)
    /\ UNCHANGED <<host, expr0, env0, envs, closures, status, js, rt, cg, infer, data, doc>>

\* eval_bet that draws the index first and evaluates only that alternative
EvalBet_Lazy ==
    /\ At("Bet")
    /\ IF Top.pc = 0
       THEN \E idx \in 0 .. 2 : Call(Top.expr.alternatives[idx + 1])
       ELSE Return(Top.vals[1])
    /\ UNCHANGED <<host, expr0, env0, envs, closures, status, js, rt, cg, infer, data, doc>>

\* eval_bet
EvalBet ==
    /\ At("Bet")
    /\ IF Top.pc < 3
       THEN Call(Top.expr.alternatives[Top.pc + 1])
       ELSE \E idx \in 0 .. 2 : Return(Top.vals[idx + 1])
    /\ UNCHANGED <<host, expr0, env0, envs, closures, status, js, rt, cg, infer, data, doc>>

\* eval_weighted_bet
EvalWeightedBet ==
    /\ At("WeightedBet")
    /\ LET alts == Top.expr.alternatives
           k == Top.pc \div 2
           values == [i \in 1 .. 3 |-> Top.vals[2 * i - 1]]
           weights == [i \in 1 .. 3 |-> weight_f64(Top.vals[2 * i])]
       IN  IF Top.pc < 6
           THEN Call(alts[k + 1][(Top.pc % 2) + 1])
           ELSE IF Top.aux = <<>>
           THEN /\ \E r \in gen_times_total(SumFrom(weights, 1)) :
                      stack' = SetTop(stack, [Top EXCEPT !.aux = <<r>>])
                /\ ret' = NONE
           ELSE Return(values[weighted_loop(weights, Top.aux[1], 1, 0)])
    /\ UNCHANGED <<host, expr0, env0, envs, closures, status, js, rt, cg, infer, data, doc>>

\* eval_conditional_bet
EvalConditionalBet ==
    /\ At("ConditionalBet")
    /\ IF Top.pc = 0 THEN Call(Top.expr.condition)
       ELSE IF is_truthy(Top.vals[1])
       THEN IF Top.pc = 1 THEN Call(Top.expr.if_true)
            ELSE Return(Top.vals[2])
       ELSE IF Top.pc < 4 THEN Call(Top.expr.if_false[Top.pc])
            ELSE \E idx \in 0 .. 2 : Return(Top.vals[idx + 2])
    /\ UNCHANGED <<host, expr0, env0, envs, closures, status, js, rt, cg, infer, data, doc>>

EvalLet ==
    /\ At("Let")
    /\ IF Top.pc = 0
       THEN Call(Top.expr.value) /\ envs' = envs
       ELSE IF Top.pc = 1
       THEN LET b == bind_pattern(Top.expr.pattern, Top.vals[1], Env)
            IN  /\ envs' = SetTop(envs, b.env)
                /\ IF b.err # NONE THEN Return(b.err) ELSE Call(Top.expr.body)
       ELSE Return(Top.vals[2]) /\ envs' = envs
    /\ UNCHANGED <<host, expr0, env0, closures, status, js, rt, cg, infer, data, doc>>

EvalIf ==
    /\ At("If")
    /\ IF Top.pc = 0 THEN Call(Top.expr.condition)
       ELSE IF Top.pc = 1
       THEN IF is_truthy(Top.vals[1])
            THEN Call(Top.expr.then_branch)
            ELSE Call(Top.expr.else_branch)
       ELSE Return(Top.vals[2])
    /\ UNCHANGED <<host, expr0, env0, envs, closures, status, js, rt, cg, infer, data, doc>>

EvalLambda ==
    /\ At("Lambda")
    /\ LET params == [i \in 1 .. Len(Top.expr.params) |-> pattern_name(Top.expr.params[i])]
       IN  /\ closures' = Append(closures, [params |-> params, body |-> Top.expr.body, env |-> Env])
           /\ Return(ValueClosure(Len(closures) + 1))
    /\ UNCHANGED <<host, expr0, env0, envs, status, js, rt, cg, infer, data, doc>>

\* apply that binds the parameters in the closure's own environment, without
\* the clone
EvalApp_InPlace ==
    /\ At("App")
    /\ LET nargs == Len(Top.expr.args)
           f == Top.vals[1]
           arg_vals == SubSeq(Top.vals, 2, nargs + 1)
       IN  IF Top.pc = 0 THEN Call(Top.expr.func) /\ envs' = envs /\ closures' = closures
           ELSE IF Top.pc <= nargs
           THEN Call(Top.expr.args[Top.pc]) /\ envs' = envs /\ closures' = closures
           ELSE IF Top.pc = nargs + 1
           THEN IF f.tag = "Closure"
                THEN LET new_env == apply_new_env(closures[f.val], arg_vals)
                     IN  /\ closures' = [closures EXCEPT ![f.val].env = new_env]
                         /\ envs' = Append(envs, new_env)
                         /\ Call(closures[f.val].body)
                ELSE /\ Return(Runtime("Cannot apply non-function"))
                     /\ envs' = envs /\ closures' = closures
           ELSE Return(Top.vals[nargs + 2]) /\ envs' = Pop(envs) /\ closures' = closures
    /\ UNCHANGED <<host, expr0, env0, status, js, rt, cg, infer, data, doc>>

\* Expr::App and apply
EvalApp ==
    /\ At("App")
    /\ LET nargs == Len(Top.expr.args)
           f == Top.vals[1]
           arg_vals == SubSeq(Top.vals, 2, nargs + 1)
       IN  IF Top.pc = 0 THEN Call(Top.expr.func) /\ envs' = envs
           ELSE IF Top.pc <= nargs THEN Call(Top.expr.args[Top.pc]) /\ envs' = envs
           ELSE IF Top.pc = nargs + 1
           THEN IF f.tag = "Closure"
                THEN /\ envs' = Append(envs, apply_new_env(closures[f.val], arg_vals))
                     /\ Call(closures[f.val].body)
                ELSE Return(Runtime("Cannot apply non-function")) /\ envs' = envs
           ELSE Return(Top.vals[nargs + 2]) /\ envs' = Pop(envs)
    /\ UNCHANGED <<host, expr0, env0, closures, status, js, rt, cg, infer, data, doc>>

EvalTransparent_Unit ==
    /\ host = "eval" /\ status = "running" /\ stack # <<>> /\ ret = NONE
    /\ Top.expr.op \in {"Sample", "Annotate"}
    /\ IF Top.pc = 0 THEN Call(Top.expr.inner) ELSE Return(ValueUnit)
    /\ UNCHANGED <<host, expr0, env0, envs, closures, status, js, rt, cg, infer, data, doc>>

\* Expr::Sample and Expr::Annotate hand back the value of their operand
EvalTransparent ==
    /\ host = "eval" /\ status = "running" /\ stack # <<>> /\ ret = NONE
    /\ Top.expr.op \in {"Sample", "Annotate"}
    /\ IF Top.pc = 0 THEN Call(Top.expr.inner) ELSE Return(Top.vals[1])
    /\ UNCHANGED <<host, expr0, env0, envs, closures, status, js, rt, cg, infer, data, doc>>

\* Expr::Tuple and Expr::List
EvalElems ==
    /\ host = "eval" /\ status = "running" /\ stack # <<>> /\ ret = NONE
    /\ Top.expr.op \in {"Tuple", "List"}
    /\ IF Top.pc < Len(Top.expr.elems) THEN Call(Top.expr.elems[Top.pc + 1])
       ELSE Return(IF Top.expr.op = "Tuple" THEN ValueTuple(Top.vals) ELSE ValueList(Top.vals))
    /\ UNCHANGED <<host, expr0, env0, envs, closures, status, js, rt, cg, infer, data, doc>>

\* Expr::Parallel.  aux holds n once the count has been matched; Vec::with_
\* capacity panics when the capacity in bytes exceeds isize::MAX
EvalParallel ==
    /\ At("Parallel")
    /\ IF Top.pc = 0 THEN Call(Top.expr.n_expr) /\ status' = status
       ELSE IF Top.aux = <<>>
       THEN IF Top.vals[1].tag = "Int"
            THEN LET n == as_usize(Top.vals[1].val)
                 IN  /\ stack' = SetTop(stack, [Top EXCEPT !.aux = <<n>>])
                     /\ ret' = NONE
                     /\ status' = IF n > IsizeMax THEN "panic" ELSE status
            ELSE /\ Return(Runtime("parallel count must be an integer"))
                 /\ status' = status
       ELSE IF Top.pc - 1 < Top.aux[1]
       THEN Call(Top.expr.body) /\ status' = status
       ELSE Return(ValueList(SubSeq(Top.vals, 2, Len(Top.vals)))) /\ status' = status
    /\ UNCHANGED <<host, expr0, env0, envs, closures, js, rt, cg, infer, data, doc>>

\* Expr::BinOp: both operands, left first, then eval_binop
EvalBinOp ==
    /\ At("BinOp")
    /\ IF Top.pc = 0 THEN Call(Top.expr.lhs) /\ status' = status
       ELSE IF Top.pc = 1 THEN Call(Top.expr.rhs) /\ status' = status
       ELSE \E res \in eval_binop(Top.expr.bop, Top.vals[1], Top.vals[2]) :
               IF res = PANIC
               THEN status' = "panic" /\ UNCHANGED <<stack, ret>>
               ELSE Return(res) /\ status' = status
    /\ UNCHANGED <<host, expr0, env0, envs, closures, js, rt, cg, infer, data, doc>>

\* Expr::UnOp
EvalUnOp ==
    /\ At("UnOp")
    /\ IF Top.pc = 0 THEN Call(Top.expr.operand) /\ status' = status
       ELSE \E res \in eval_unop(Top.expr.uop, Top.vals[1]) :
               IF res = PANIC
               THEN status' = "panic" /\ UNCHANGED <<stack, ret>>
               ELSE Return(res) /\ status' = status
    /\ UNCHANGED <<host, expr0, env0, envs, closures, js, rt, cg, infer, data, doc>>

\* `_ => Ok(Value::Unit)`
EvalCatchAll ==
    /\ host = "eval" /\ status = "running" /\ stack # <<>> /\ ret = NONE
    /\ Top.expr.op \in CatchAllOps
    /\ Return(ValueUnit)
    /\ UNCHANGED <<host, expr0, env0, envs, closures, status, js, rt, cg, infer, data, doc>>

-----------------------------------------------------------------------------
(* __bet_weighted of the JavaScript runtime preamble *)

JsIdle == [pc |-> "idle", alts |-> <<>>, weights |-> <<>>, total |-> 0, r |-> 0, cumul |-> 0, i |-> 0, ret |-> 0]

\* const total = weights.reduce(..); const r = Math.random() * total; let cumul = 0
JsBetWeightedEnter ==
    /\ host = "js"
    /\ js.pc = "call"
    /\ LET total == SumFrom(js.weights, 1)
       IN  \E r \in gen_times_total(total) :
              js' = [js EXCEPT !.pc = "loop", !.total = total, !.r = r, !.cumul = 0, !.i = 0]
    /\ UNCHANGED <<host, evalVars, rt, cg, infer, data, doc>>

\* one turn of `for (let i = 0; i < alts.length; i++)`, or the final return
JsBetWeightedLoop ==
    /\ host = "js"
    /\ js.pc = "loop"
    /\ IF js.i < Len(js.alts)
       THEN LET cumul == js.cumul + js.weights[js.i + 1]
            IN  IF js.r < 2 * cumul
                THEN js' = [js EXCEPT !.pc = "done", !.cumul = cumul, !.ret = js.alts[js.i + 1]]
                ELSE js' = [js EXCEPT !.cumul = cumul, !.i = @ + 1]
       ELSE js' = [js EXCEPT !.pc = "done", !.ret = js.alts[Len(js.alts)]]
    /\ UNCHANGED <<host, evalVars, rt, cg, infer, data, doc>>

-----------------------------------------------------------------------------
(* Inputs *)

X == PatternVar("x")

\* alternatives of a bet: two values, an unbound name, a binding expression
Alts == {ExprInt(1), ExprInt(2), ExprVar("u"), ExprLet(X, ExprInt(5), ExprVar("x"), FALSE)}

WeightExprs == {ExprInt(-1), ExprInt(0), ExprInt(1), ExprFloat(0), ExprFloat(1), ExprUnit}

Fun1 == ExprLambda(<<PatternVar("a")>>, ExprVar("a"))

Conds ==
    {ExprBool(TRUE), ExprBool(FALSE), ExprInt(0), ExprInt(3), ExprFloat(0), ExprFloat(1),
     ExprTernary("True"), ExprTernary("False"), ExprTernary("Unknown"), ExprUnit,
     ExprString(""), ExprString("a"), ExprList(<<>>), ExprList(<<ExprInt(1)>>),
     ExprTuple(<<>>), ExprTuple(<<ExprInt(1)>>), Fun1, ExprVar("u")}

BetPrograms == {ExprBet(a, b, c) : a \in Alts, b \in Alts, c \in Alts}

WeightedPrograms ==
    {ExprWeightedBet(ExprInt(1), wa, ExprInt(2), wb, ExprInt(3), wc) :
        wa \in WeightExprs, wb \in WeightExprs, wc \in WeightExprs}
    \cup {ExprWeightedBet(ExprInt(1), ExprInt(1), ExprVar("u"), ExprInt(1), ExprInt(3), ExprInt(1)),
          ExprWeightedBet(ExprInt(1), ExprInt(1), ExprInt(2), ExprVar("u"), ExprInt(3), ExprInt(1))}

ConditionalPrograms ==
    {ExprConditionalBet(c, ExprInt(9), ExprInt(1), ExprInt(2), ExprInt(3)) : c \in Conds}
    \cup {ExprConditionalBet(ExprBool(FALSE), ExprInt(9), ExprInt(1), ExprVar("u"), ExprInt(3)),
          ExprConditionalBet(ExprBool(TRUE), ExprVar("u"), ExprInt(1), ExprInt(2), ExprInt(3))}
    \cup {ExprIf(c, ExprInt(1), ExprInt(0)) : c \in Conds}

LetPatterns == {X, PatternWildcard, PatternTuple(<<X, PatternVar("y")>>), PatternLiteral(1)}

LetValues == {ExprInt(5), ExprTuple(<<ExprInt(1), ExprInt(2)>>), ExprTuple(<<ExprInt(1)>>), ExprVar("u")}

LetBodies == {ExprVar("x"), ExprVar("y"), ExprInt(0), ExprLet(X, ExprInt(6), ExprVar("x"), FALSE)}

LetPrograms ==
    {ExprLet(p, v, b, FALSE) : p \in LetPatterns, v \in LetValues, b \in LetBodies}
    \cup {ExprTuple(<<ExprLet(X, ExprInt(5), ExprVar("x"), FALSE), ExprVar("x")>>),
          ExprList(<<ExprLet(X, ExprInt(5), ExprVar("x"), FALSE), ExprBet(ExprInt(1), ExprInt(2), ExprVar("x"))>>)}

ParallelCounts ==
    {ExprInt(k) : k \in -1 .. MaxParallel} \cup {ExprBool(TRUE), ExprFloat(2), ExprUnit, ExprVar("u")}

ParallelBodies ==
    {ExprInt(7), ExprBet(ExprInt(1), ExprInt(2), ExprInt(3)), ExprVar("u"),
     ExprLet(X, ExprBet(ExprInt(1), ExprInt(2), ExprInt(3)), ExprVar("x"), FALSE),
     ExprLet(PatternVar("y"), ExprInt(1), ExprVar("y"), FALSE)}

ParallelPrograms == {ExprParallel(n, b) : n \in ParallelCounts, b \in ParallelBodies}

F == PatternVar("f")

\* fun n -> if n then f 0 else 7
SelfCall == ExprLambda(<<PatternVar("n")>>, ExprIf(ExprVar("n"), ExprApp(ExprVar("f"), <<ExprInt(0)>>), ExprInt(7)))

\* fun a -> let z = a in z
LetInside == ExprLambda(<<PatternVar("a")>>, ExprLet(PatternVar("z"), ExprVar("a"), ExprVar("z"), FALSE))

ClosurePrograms ==
    {ExprLet(F, LetInside, ExprTuple(<<ExprApp(ExprVar("f"), <<ExprInt(1)>>), ExprApp(ExprVar("f"), <<ExprInt(2)>>)>>), FALSE),
     ExprLet(F, ExprLambda(<<>>, ExprVar("x")), ExprLet(X, ExprInt(8), ExprApp(ExprVar("f"), <<>>), FALSE), FALSE),
     ExprLet(F, ExprLambda(<<X>>, ExprVar("x")), ExprTuple(<<ExprApp(ExprVar("f"), <<ExprInt(1)>>), ExprApp(ExprVar("f"), <<>>)>>), FALSE),
     ExprLet(F, ExprLambda(<<PatternVar("a")>>, ExprVar("u")), ExprApp(ExprVar("f"), <<ExprInt(1)>>), FALSE),
     ExprLet(PatternVar("mk"), ExprLambda(<<PatternVar("a")>>, ExprLambda(<<>>, ExprVar("a"))),
             ExprApp(ExprApp(ExprVar("mk"), <<ExprInt(1)>>), <<>>), FALSE),
     ExprApp(ExprInt(3), <<ExprInt(1)>>),
     ExprApp(Fun1, <<ExprVar("u")>>),
     ExprApp(ExprLambda(<<PatternVar("a"), PatternVar("b")>>, ExprVar("a")), <<ExprInt(1)>>),
     ExprApp(ExprLambda(<<PatternWildcard, PatternLiteral(1)>>, ExprVar("_")), <<ExprInt(1), ExprInt(2)>>)}
    \cup {ExprLet(F, SelfCall, ExprApp(ExprVar("f"), <<ExprInt(k)>>), rec) : k \in 0 .. 1, rec \in BOOLEAN}

\* match s { 1 -> 10 }, with a wildcard arm, with a failing guard, binding n
MatchArmLists ==
    {<<>>,
     <<MatchArm(PatternLiteral(1), <<>>, ExprInt(10))>>,
     <<MatchArm(PatternLiteral(1), <<>>, ExprInt(10)), MatchArm(PatternWildcard, <<>>, ExprInt(20))>>,
     <<MatchArm(PatternLiteral(1), <<ExprBool(FALSE)>>, ExprInt(10)),
       MatchArm(PatternWildcard, <<>>, ExprInt(20))>>,
     <<MatchArm(PatternVar("n"), <<>>, ExprVar("n"))>>}

MatchPrograms == {ExprMatchArms(ExprInt(k), arms) : k \in 1 .. 2, arms \in MatchArmLists}

ArithOps == {"Add", "Sub", "Mul", "Div", "Mod", "Pow"}

\* numeric literals: the ends of the Int range, small Ints, Floats in quanta
IntLiterals == {ExprInt(I64Min), ExprInt(-1), ExprInt(0), ExprInt(2), ExprInt(7), ExprInt(I64Max)}

FloatLiterals == {ExprFloat(-1), ExprFloat(0), ExprFloat(1), ExprFloat(3)}

ArithPrograms ==
    {ExprBinOp(bop, l, r) : bop \in ArithOps,
                            l \in IntLiterals \cup FloatLiterals, r \in IntLiterals \cup FloatLiterals}

\* (e : Int) around a leaking Let, a bet, a failing division, an annotation
AnnotatePrograms ==
    {ExprAnnotate(e, "Int") :
        e \in {ExprLet(PatternVar("y"), ExprInt(5), ExprVar("y"), FALSE),
               ExprBet(ExprInt(1), ExprInt(2), ExprInt(3)),
               ExprBinOp("Div", ExprInt(1), ExprInt(0)),
               ExprAnnotate(ExprInt(1), "Int")}}

CompareOps == {"Eq", "Ne", "Lt", "Le", "Gt", "Ge"}

\* deterministic programs over Bool, Int and Ternary literals
OperatorPrograms ==
    {ExprBinOp(bop, ExprInt(a), ExprInt(b)) : bop \in CompareOps, a \in {-1, 0, 2}, b \in {-1, 0, 2}}
    \cup {ExprBinOp(bop, ExprBool(a), ExprBool(b)) : bop \in {"And", "Or", "Eq"}, a \in BOOLEAN, b \in BOOLEAN}
    \cup {ExprUnOp("Neg", e) : e \in {ExprInt(-1), ExprInt(0), ExprInt(2), ExprInt(I64Min), ExprFloat(1),
                                      ExprBool(TRUE), ExprUnOp("Neg", ExprInt(2))}}
    \cup {ExprUnOp("Not", e) : e \in {ExprBool(TRUE), ExprBool(FALSE), ExprTernary("True"),
                                      ExprTernary("False"), ExprTernary("Unknown"), ExprInt(1),
                                      ExprUnOp("Not", ExprTernary("True"))}}
    \cup {ExprIf(ExprBinOp("Lt", ExprInt(1), ExprInt(2)), ExprUnOp("Neg", ExprInt(2)), ExprInt(7)),
          ExprIf(ExprTernary("Unknown"), ExprInt(1), ExprBinOp("Div", ExprInt(1), ExprInt(0))),
          ExprBinOp("Add", ExprBinOp("Mul", ExprInt(2), ExprInt(7)), ExprUnOp("Neg", ExprInt(2))),
          ExprLet(X, ExprInt(5), ExprBinOp("Add", ExprVar("x"), ExprInt(1)), FALSE),
          ExprLet(X, ExprInt(1), ExprLet(X, ExprBinOp("Add", ExprVar("x"), ExprInt(1)), ExprVar("x"), FALSE), FALSE),
          ExprLet(PatternVar("new"), ExprInt(1), ExprVar("new"), FALSE)}

OtherPrograms ==
    {ExprAnnotate(ExprInt(1), "Int"), ExprAnnotate(ExprVar("u"), "Int"), ExprSample(ExprInt(1)),
     ExprSample(ExprFloat(1)), ExprHole, ExprMatch(ExprInt(1)), ExprVar("x")}
    \cup Conds

Programs ==
    BetPrograms \cup WeightedPrograms \cup ConditionalPrograms \cup LetPrograms
    \cup ParallelPrograms \cup ClosurePrograms \cup OtherPrograms \cup MatchPrograms
    \cup ArithPrograms \cup AnnotatePrograms \cup OperatorPrograms

\* the environment handed to eval: ValueEnv::new(), or one that binds x
Envs == {EnvNew, EnvBind(EnvNew, "x", ValueInt(7))}

\* weights reaching __bet_weighted, in quanta
JsWeights == {-1, 0, 1, FloatDen}

-----------------------------------------------------------------------------
(* bet-rt: Ternary (runtime/bet-rt/src/value.rs) *)

\* enum Ternary { True, False, Unknown }
TernaryValues == {"True", "False", "Unknown"}

\* Ternary::to_f64, counted in halves: 0.0, 0.5, 1.0
Ternary_to_f64(self) ==
    CASE self = "False" -> 0
      [] self = "Unknown" -> 1
      [] self = "True" -> 2

Ternary_and_DefaultFalse(self, other) ==
    IF self = "False" \/ other = "False" THEN "False"
    ELSE IF self = "True" THEN other
    ELSE IF other = "True" THEN self
    ELSE "False"

\* Ternary::and; the match arms in their order
Ternary_and(self, other) ==
    IF self = "False" \/ other = "False" THEN "False"
    ELSE IF self = "True" THEN other
    ELSE IF other = "True" THEN self
    ELSE "Unknown"

\* Ternary::or
Ternary_or(self, other) ==
    IF self = "True" \/ other = "True" THEN "True"
    ELSE IF self = "False" THEN other
    ELSE IF other = "False" THEN self
    ELSE "Unknown"

Ternary_not_Collapse(self) ==
    CASE self = "True" -> "False"
      [] self = "False" -> "True"
      [] self = "Unknown" -> "False"

\* Ternary::not
Ternary_not(self) ==
    CASE self = "True" -> "False"
      [] self = "False" -> "True"
      [] self = "Unknown" -> "Unknown"

Ternary_majority_Strict(a, b, c) ==
    LET sum == Ternary_to_f64(a) + Ternary_to_f64(b) + Ternary_to_f64(c)
    IN  IF sum > 4 THEN "True"
        ELSE IF sum <= 2 THEN "False"
        ELSE "Unknown"

\* Ternary::majority; 2.0 and 1.0 are 4 and 2 halves
Ternary_majority(a, b, c) ==
    LET sum == Ternary_to_f64(a) + Ternary_to_f64(b) + Ternary_to_f64(c)
    IN  IF sum >= 4 THEN "True"
        ELSE IF sum <= 2 THEN "False"
        ELSE "Unknown"

\* a caller holding a Ternary x applies the methods to it, one after another;
\* calls records each call made
RtIdle == [pc |-> "idle", x0 |-> "Unknown", x |-> "Unknown", calls |-> <<>>]

RtCalled(f, args, out) ==
    rt' = [rt EXCEPT !.x = out, !.calls = Append(@, [f |-> f, args |-> args, out |-> out])]

RtReady ==
    /\ host = "rt"
    /\ rt.pc = "run"
    /\ Len(rt.calls) < MaxCalls

\* x.not()
TernaryNot ==
    /\ RtReady
    /\ RtCalled("not", <<rt.x>>, Ternary_not(rt.x))
    /\ UNCHANGED <<host, evalVars, js, cg, infer, data, doc>>

\* x.and(other) or other.and(x)
TernaryAnd ==
    /\ RtReady
    /\ \E other \in TernaryValues, swapped \in BOOLEAN :
          LET args == IF swapped THEN <<other, rt.x>> ELSE <<rt.x, other>>
          IN  RtCalled("and", args, Ternary_and(args[1], args[2]))
    /\ UNCHANGED <<host, evalVars, js, cg, infer, data, doc>>

\* x.or(other) or other.or(x)
TernaryOr ==
    /\ RtReady
    /\ \E other \in TernaryValues, swapped \in BOOLEAN :
          LET args == IF swapped THEN <<other, rt.x>> ELSE <<rt.x, other>>
          IN  RtCalled("or", args, Ternary_or(args[1], args[2]))
    /\ UNCHANGED <<host, evalVars, js, cg, infer, data, doc>>

\* Ternary::majority with x in any of the three places
TernaryMajority ==
    /\ RtReady
    /\ \E b \in TernaryValues, c \in TernaryValues, place \in 1 .. 3 :
          LET args == CASE place = 1 -> <<rt.x, b, c>>
                        [] place = 2 -> <<b, rt.x, c>>
                        [] place = 3 -> <<b, c, rt.x>>
          IN  RtCalled("majority", args, Ternary_majority(args[1], args[2], args[3]))
    /\ UNCHANGED <<host, evalVars, js, cg, infer, data, doc>>

-----------------------------------------------------------------------------
(* bet-codegen: identifiers *)

\* Symbol::as_str: the text of an interned symbol, character by character.
\* A symbol of one character is its own text.
as_str(sym) ==
    CASE sym = "new" -> <<"n", "e", "w">>
      [] sym = "_new" -> <<"_", "n", "e", "w">>
      [] sym = "if" -> <<"i", "f">>
      [] sym = "_if" -> <<"_", "i", "f">>
      [] sym = "try" -> <<"t", "r", "y">>
      [] sym = "a-b" -> <<"a", "-", "b">>
      [] sym = "a_b" -> <<"a", "_", "b">>
      [] sym = "x'" -> <<"x", "'">>
      [] sym = "xs" -> <<"x", "s">>
      [] OTHER -> <<sym>>

\* the words is_js_reserved matches
JsReserved ==
    {<<"b", "r", "e", "a", "k">>, <<"c", "a", "s", "e">>, <<"c", "a", "t", "c", "h">>,
     <<"c", "l", "a", "s", "s">>, <<"c", "o", "n", "s", "t">>,
     <<"c", "o", "n", "t", "i", "n", "u", "e">>, <<"d", "e", "b", "u", "g", "g", "e", "r">>,
     <<"d", "e", "f", "a", "u", "l", "t">>, <<"d", "e", "l", "e", "t", "e">>, <<"d", "o">>,
     <<"e", "l", "s", "e">>, <<"e", "x", "p", "o", "r", "t">>,
     <<"e", "x", "t", "e", "n", "d", "s">>, <<"f", "i", "n", "a", "l", "l", "y">>,
     <<"f", "o", "r">>, <<"f", "u", "n", "c", "t", "i", "o", "n">>, <<"i", "f">>,
     <<"i", "m", "p", "o", "r", "t">>, <<"i", "n">>,
     <<"i", "n", "s", "t", "a", "n", "c", "e", "o", "f">>, <<"l", "e", "t">>, <<"n", "e", "w">>,
     <<"r", "e", "t", "u", "r", "n">>, <<"s", "u", "p", "e", "r">>,
     <<"s", "w", "i", "t", "c", "h">>, <<"t", "h", "i", "s">>, <<"t", "h", "r", "o", "w">>,
     <<"t", "r", "y">>, <<"t", "y", "p", "e", "o", "f">>, <<"v", "a", "r">>,
     <<"v", "o", "i", "d">>, <<"w", "h", "i", "l", "e">>, <<"w", "i", "t", "h">>,
     <<"y", "i", "e", "l", "d">>}

is_js_reserved(name) == name \in JsReserved

\* str::replace(from, to) for a one-character pattern
RECURSIVE str_replace(_, _, _)
str_replace(name, from, to) ==
    IF name = <<>> THEN <<>>
    ELSE (IF Head(name) = from THEN to ELSE <<Head(name)>>) \o str_replace(Tail(name), from, to)

sanitize_js_ident(name) ==
    IF is_js_reserved(name) THEN <<"_">> \o name
    ELSE str_replace(str_replace(name, "-", <<"_">>), "'", <<"$", "p", "r", "i", "m", "e">>)

\* the symbols handed to the code generator as identifiers
Symbols == {"new", "_new", "if", "_if", "try", "a-b", "a_b", "x'", "xs", "x", "y"}

-----------------------------------------------------------------------------
(* bet-codegen: emit_js_expr.  The JavaScript text is kept as the tree of   *)
(* the pieces pushed: a node stands for the text its arm pushes around the  *)
(* texts of its operands.                                                   *)

\* the decimal text of the number num/over: `i.to_string()`, `f.to_string()`
JsNum(n, d) == [js |-> "num", num |-> n, over |-> d]

\* "(" lhs sym rhs ")"
JsInfix(sym, l, r) == [js |-> "infix", sym |-> sym, lhs |-> l, rhs |-> r]

\* "(" test " ? " then " : " otherwise ")"
JsConditional(c, t, e) == [js |-> "cond", test |-> c, then |-> t, otherwise |-> e]

\* the operator text pushed between the operands of a BinOp
JsInfixSymbol(bop) ==
    CASE bop = "Add" -> "+"
      [] bop = "Sub" -> "-"
      [] bop = "Mul" -> "*"
      [] bop = "Div" -> "/"
      [] bop = "Mod" -> "%"
      [] bop = "Eq" -> "==="
      [] bop = "Ne" -> "!=="
      [] bop = "Lt" -> "<"
      [] bop = "Le" -> "<="
      [] bop = "Gt" -> ">"
      [] bop = "Ge" -> ">="
      [] bop = "And" -> "&&"
      [] bop = "Or" -> "||"

InfixOps == {"Add", "Sub", "Mul", "Div", "Mod", "Eq", "Ne", "Lt", "Le", "Gt", "Ge", "And", "Or"}

\* emit_js_let_pattern, after "const "; tuple patterns are not modelled
emit_js_let_pattern(pat) ==
    CASE pat.p = "Var" -> sanitize_js_ident(as_str(pat.sym))
      [] pat.p \in {"Wildcard", "Literal"} -> <<"_">>

\* emit_js_pattern_param: the name as written, or "_"
emit_js_pattern_param(pat) == IF pat.p = "Var" THEN as_str(pat.sym) ELSE <<"_">>

\* emit_js_pattern_match: the test of an arm, "true" or scrutinee " === " literal
emit_js_pattern_match(scrutinee, pat) ==
    IF pat.p = "Literal"
    THEN JsInfix("===", [js |-> "id", name |-> scrutinee], JsNum(pat.lit, 1))
    ELSE [js |-> "bool", val |-> TRUE]

\* emit_js_pattern_bindings: "const " name " = " scrutinee "; " for a variable
\* pattern, nothing for the others; answers the names declared
emit_js_pattern_bindings(scrutinee, pat) ==
    IF pat.p = "Var" THEN <<sanitize_js_ident(as_str(pat.sym))>> ELSE <<>>

\* emit_js_expr; the arms for the variants that reach it here
RECURSIVE emit_js_expr(_)
emit_js_expr(expr) ==
    CASE expr.op = "Int" -> JsNum(expr.i, 1)
      [] expr.op = "Float" -> JsNum(expr.f, FloatDen)
      \* "true" / "false"
      [] expr.op = "Bool" -> [js |-> "bool", val |-> expr.b]
      [] expr.op = "Ternary" -> JsNum(CASE expr.t = "True" -> 1
                                        [] expr.t = "False" -> -1
                                        [] expr.t = "Unknown" -> 0, 1)
      [] expr.op = "Unit" -> [js |-> "null"]
      [] expr.op = "Var" -> [js |-> "id", name |-> sanitize_js_ident(as_str(expr.sym))]
      [] expr.op = "If" ->
            JsConditional(emit_js_expr(expr.condition), emit_js_expr(expr.then_branch),
                          emit_js_expr(expr.else_branch))
      [] expr.op = "Let" ->
            \* "(function() {\n  const " pattern " = " value ";\n  return " result ";\n})()"
            [js |-> "let", pattern |-> emit_js_let_pattern(expr.pattern),
             value |-> emit_js_expr(expr.value), result |-> emit_js_expr(expr.body)]
      [] expr.op = "BinOp" /\ expr.bop \in InfixOps ->
            JsInfix(JsInfixSymbol(expr.bop), emit_js_expr(expr.lhs), emit_js_expr(expr.rhs))
      [] expr.op = "BinOp" /\ expr.bop = "Pow" ->
            \* "Math.pow(" lhs ", " rhs ")"
            [js |-> "pow", lhs |-> emit_js_expr(expr.lhs), rhs |-> emit_js_expr(expr.rhs)]
      [] expr.op = "BinOp" /\ expr.bop = "Xor" ->
            JsConditional(JsInfix("||", JsInfix("===", emit_js_expr(expr.lhs), JsNum(0, 1)),
                                        JsInfix("===", emit_js_expr(expr.rhs), JsNum(0, 1))),
                          JsNum(0, 1),
                          JsInfix("!==", emit_js_expr(expr.lhs), emit_js_expr(expr.rhs)))
      \* "(-" operand ")", for Neg and for Not alike
      [] expr.op = "UnOp" /\ expr.uop \in {"Neg", "Not"} ->
            [js |-> "minus", operand |-> emit_js_expr(expr.operand)]
      [] expr.op = "Annotate" -> emit_js_expr(expr.inner)
      \* "__bet_uniform(" a ", " b ", " c ")"
      [] expr.op = "Bet" ->
            [js |-> "call", fn |-> "__bet_uniform",
             args |-> [i \in 1 .. 3 |-> emit_js_expr(expr.alternatives[i])]]
      \* "__bet_dist_bernoulli(" args ")"; emit_js_args pushes the arguments
      [] expr.op = "App" /\ expr.func = ExprVar("bernoulli") ->
            [js |-> "call", fn |-> "__bet_dist_bernoulli",
             args |-> [i \in DOMAIN expr.args |-> emit_js_expr(expr.args[i])]]
      \* func "(" args ")"
      [] expr.op = "App" /\ expr.func # ExprVar("bernoulli") ->
            [js |-> "apply", callee |-> emit_js_expr(expr.func),
             args |-> [i \in DOMAIN expr.args |-> emit_js_expr(expr.args[i])]]
      \* "((function(" p ") { return (" rhs ")((" lhs ")(" p ")); }))", p being
      \* ctx.fresh_var()
      [] expr.op = "BinOp" /\ expr.bop = "Compose" ->
            LET param == <<"_", "_", "t", "0">>
            IN  [js |-> "lambda", params |-> <<param>>,
                 result |-> [js |-> "apply", callee |-> emit_js_expr(expr.rhs),
                             args |-> <<[js |-> "apply", callee |-> emit_js_expr(expr.lhs),
                                         args |-> <<[js |-> "id", name |-> param]>>]>>]]
      \* "__bet_observe(" dist ", " value ")"
      [] expr.op = "Observe" ->
            [js |-> "call", fn |-> "__bet_observe",
             args |-> <<emit_js_expr(expr.dist), emit_js_expr(expr.value)>>]
      \* "__bet_infer('" method "', {" key ": " value .. "}, function() { return " model "; })"
      [] expr.op = "Infer" ->
            [js |-> "call", fn |-> "__bet_infer",
             args |-> <<[js |-> "string", val |-> CASE expr.method = "MCMC" -> "mcmc"
                                                    [] expr.method = "HMC" -> "hmc"
                                                    [] expr.method = "SMC" -> "smc"
                                                    [] expr.method = "VI" -> "vi"
                                                    [] expr.method = "Rejection" -> "rejection"
                                                    [] expr.method = "Importance" -> "importance"],
                        [js |-> "object",
                         keys |-> [i \in DOMAIN expr.params |-> as_str(expr.params[i][1])],
                         vals |-> [i \in DOMAIN expr.params |-> emit_js_expr(expr.params[i][2])]],
                        [js |-> "lambda", params |-> <<>>, result |-> emit_js_expr(expr.model)]>>]
      \* "(function() {\n  const " scrutinee_var " = " scrutinee ";\n" and for each
      \* arm "if (" test [" && " guard] ") {\n" bindings "return " body ";\n}\n",
      \* then "throw new Error('Non-exhaustive match');\n})()".  scrutinee_var is
      \* ctx.fresh_var(), "__t0" for the first Match of a translation
      [] expr.op = "Match" /\ "arms" \in DOMAIN expr ->
            LET scrutinee_var == <<"_", "_", "t", "0">>
                Arm(arm) ==
                    LET test == emit_js_pattern_match(scrutinee_var, arm.pattern)
                    IN  [test |-> IF arm.guard = <<>> THEN test
                                  ELSE JsInfix("&&", test, emit_js_expr(arm.guard[1])),
                         bindings |-> emit_js_pattern_bindings(scrutinee_var, arm.pattern),
                         result |-> emit_js_expr(arm.body)]
            IN  [js |-> "match", scrutinee_var |-> scrutinee_var, value |-> emit_js_expr(expr.scrutinee),
                 arms |-> [i \in DOMAIN expr.arms |-> Arm(expr.arms[i])]]
      \* "(function(" params ") { return " body "; })"
      [] expr.op = "Lambda" ->
            [js |-> "lambda", params |-> [i \in DOMAIN expr.params |-> emit_js_pattern_param(expr.params[i])],
             result |-> emit_js_expr(expr.body)]

\* the expressions whose translation and execution are modelled
RECURSIVE Emittable(_)
Emittable(expr) ==
    CASE expr.op \in {"Int", "Float", "Bool", "Ternary", "Unit", "Var"} -> TRUE
      [] expr.op = "If" ->
            Emittable(expr.condition) /\ Emittable(expr.then_branch) /\ Emittable(expr.else_branch)
      [] expr.op = "Let" ->
            expr.pattern.p \in {"Var", "Wildcard", "Literal"} /\ Emittable(expr.value) /\ Emittable(expr.body)
      [] expr.op = "BinOp" -> expr.bop \in InfixOps /\ Emittable(expr.lhs) /\ Emittable(expr.rhs)
      [] expr.op = "UnOp" -> expr.uop \in {"Neg", "Not"} /\ Emittable(expr.operand)
      [] expr.op = "Annotate" -> Emittable(expr.inner)
      [] OTHER -> FALSE

-----------------------------------------------------------------------------
(* bet-codegen: codegen_js and codegen_module_js.  The output String is the *)
(* sequence of the chunks pushed.                                           *)

Text(t) == [chunk |-> "text", text |-> t]

\* the text of js_preamble()
js_preamble == [chunk |-> "preamble"]

\* a statement or expression of generated code
Code(tree) == [chunk |-> "code", tree |-> tree]

codegen_js(expr) ==
    <<Text("// Generated by betlang\n"), Text("'use strict';\n\n"), js_preamble,
      Code([js |-> "stmt", value |-> emit_js_expr(expr)]), Text(";\n")>>

\* Item::Let(def), Item::TypeDef, Item::Import(imp), Item::Expr(e)
ItemLet(name, params, body) == [item |-> "Let", name |-> name, params |-> params, body |-> body]

ItemTypeDef == [item |-> "TypeDef"]

ItemImport(path) == [item |-> "Import", path |-> path]

ItemExpr(e) == [item |-> "Expr", expr |-> e]

\* emit_js_item: "const name = value;\n", "function name(params) {\n  return
\* body;\n}\n", a comment, or "expr;\n"
emit_js_item(it) ==
    CASE it.item = "Let" /\ it.params = <<>> ->
            <<Code([js |-> "const", name |-> as_str(it.name), value |-> emit_js_expr(it.body)])>>
      [] it.item = "Let" /\ it.params # <<>> ->
            <<Code([js |-> "function", name |-> as_str(it.name),
                    params |-> [i \in DOMAIN it.params |-> emit_js_pattern_param(it.params[i])],
                    result |-> emit_js_expr(it.body)])>>
      [] it.item = "TypeDef" -> <<Text("// (type definition elided)\n")>>
      \* "// import a.b\n"
      [] it.item = "Import" -> <<[chunk |-> "import", path |-> it.path]>>
      [] it.item = "Expr" -> <<Code([js |-> "stmt", value |-> emit_js_expr(it.expr)])>>

\* `for item in &module.items { emit_js_item(..)?; output.push('\n'); }`
RECURSIVE emit_js_items(_, _)
emit_js_items(items, i) ==
    IF i > Len(items) THEN <<>>
    ELSE emit_js_item(items[i]) \o <<Text("\n")>> \o emit_js_items(items, i + 1)

codegen_module_js_NoPreamble(items) ==
    <<Text("// Generated by betlang\n"), Text("'use strict';\n\n")>>
    \o emit_js_items(items, 1)

codegen_module_js(items) ==
    <<Text("// Generated by betlang\n"), Text("'use strict';\n\n"), js_preamble>>
    \o emit_js_items(items, 1)

-----------------------------------------------------------------------------
(* The JavaScript host that runs the generated code.  A number is the       *)
(* fraction num/over in lowest terms; over = 0 holds Infinity (num = 1),    *)
(* -Infinity (num = -1) and NaN (num = 0).  Rounding of doubles and the     *)
(* sign of zero are not modelled.                                           *)

RECURSIVE GCD(_, _)
GCD(a, b) == IF b = 0 THEN a ELSE GCD(b, a % b)

JsNumber(n, d) ==
    LET sign(k) == IF k > 0 THEN 1 ELSE IF k < 0 THEN -1 ELSE 0
        g == GCD(Abs(n), Abs(d))
    IN  IF d = 0 THEN [jv |-> "number", num |-> sign(n), over |-> 0]
        ELSE [jv |-> "number", num |-> sign(d) * (n \div g), over |-> Abs(d) \div g]

JsBoolean(b) == [jv |-> "boolean", val |-> b]

\* an abrupt completion: SyntaxError, ReferenceError
JsThrow(what) == [jv |-> "throw", what |-> what]

IsThrow(v) == v.jv = "throw"

\* null is [jv |-> "null"], undefined [jv |-> "undefined"], a function
\* [jv |-> "function", ..]
ToNumber(v) ==
    CASE v.jv = "number" -> v
      [] v.jv = "boolean" -> JsNumber(IF v.val THEN 1 ELSE 0, 1)
      [] v.jv = "null" -> JsNumber(0, 1)
      [] OTHER -> JsNumber(0, 0)

ToBoolean(v) ==
    CASE v.jv = "number" -> v.num # 0
      [] v.jv = "boolean" -> v.val
      [] v.jv \in {"null", "undefined"} -> FALSE
      [] OTHER -> TRUE

JsNegate(a) == [a EXCEPT !.num = 0 - @]

\* the value of lhs sym rhs for operand values a and b
JsInfixValue(sym, a, b) ==
    LET x == ToNumber(a)
        y == ToNumber(b)
        nan(u) == u.num = 0 /\ u.over = 0
        add(u, v) ==
            IF u.over = 0 /\ v.over = 0 THEN (IF u.num = v.num THEN u ELSE JsNumber(0, 0))
            ELSE JsNumber(u.num * v.over + v.num * u.over, u.over * v.over)
        mul(u, v) == JsNumber(u.num * v.num, u.over * v.over)
        \* the remainder takes the sign of the dividend
        rem(u, v) ==
            IF u.over = 0 \/ v.num = 0 THEN JsNumber(0, 0)
            ELSE IF v.over = 0 THEN u
            ELSE add(u, JsNegate(mul(v, JsNumber(TruncDiv(u.num * v.over, u.over * v.num), 1))))
        less(u, v) ==
            IF u.over = 0 /\ v.over = 0 THEN u.num < v.num
            ELSE u.num * v.over < v.num * u.over
        equals == IF a.jv = "number" /\ nan(a) THEN FALSE ELSE a = b
    IN  CASE sym = "," -> b
          [] sym = "===" -> JsBoolean(equals)
          [] sym = "!==" -> JsBoolean(~equals)
          [] sym \in {"+", "-", "*", "/", "%"} /\ (nan(x) \/ nan(y)) -> JsNumber(0, 0)
          [] sym \in {"<", ">", "<=", ">="} /\ (nan(x) \/ nan(y)) -> JsBoolean(FALSE)
          [] sym = "+" -> add(x, y)
          [] sym = "-" -> add(x, JsNegate(y))
          [] sym = "*" -> mul(x, y)
          [] sym = "/" -> JsNumber(x.num * y.over, x.over * y.num)
          [] sym = "%" -> rem(x, y)
          [] sym = "<" -> JsBoolean(less(x, y))
          [] sym = ">" -> JsBoolean(less(y, x))
          [] sym = "<=" -> JsBoolean(~less(y, x))
          [] sym = ">=" -> JsBoolean(~less(x, y))

\* the binding of name in scope, innermost first; a const that is declared
\* but not yet initialised, like a name never declared, is a ReferenceError
RECURSIVE JsLookup(_, _, _)
JsLookup(scope, i, name) ==
    IF i = 0 THEN JsThrow("ReferenceError")
    ELSE IF scope[i][1] = name
         THEN (IF scope[i][2].jv = "uninitialized" THEN JsThrow("ReferenceError") ELSE scope[i][2])
    ELSE JsLookup(scope, i - 1, name)

\* __bet_observe(dist, value) of the preamble, for the objects made by
\* __bet_dist_bernoulli(p): logpdf(x) is `x === 1 ? Math.log(p) : Math.log(1 - p)`.
\* Math.log is taken at 1 and at 0 only
bet_observe(dist, value) ==
    LET log(x) == CASE x = JsNumber(1, 1) -> JsNumber(0, 1)
                    [] x = JsNumber(0, 1) -> JsNumber(-1, 0)
    IN  IF dist.jv = "dist"
        THEN (IF value = JsNumber(1, 1) THEN log(ToNumber(dist.p))
              ELSE log(JsInfixValue("-", JsNumber(1, 1), dist.p)))
        ELSE JsThrow("Error")

\* the text parses: "(-" followed by the text of a negative number reads "--"
RECURSIVE JsParses(_)
JsParses(node) ==
    CASE node.js \in {"num", "bool", "null", "id"} -> TRUE
      [] node.js = "minus" ->
            /\ ~(node.operand.js = "num" /\ node.operand.num < 0)
            /\ JsParses(node.operand)
      [] node.js \in {"infix", "pow"} -> JsParses(node.lhs) /\ JsParses(node.rhs)
      [] node.js = "cond" -> JsParses(node.test) /\ JsParses(node.then) /\ JsParses(node.otherwise)
      \* a reserved word is not a binding identifier
      [] node.js = "let" -> ~is_js_reserved(node.pattern) /\ JsParses(node.value) /\ JsParses(node.result)
      [] node.js = "stmt" -> JsParses(node.value)
      [] node.js = "const" -> ~is_js_reserved(node.name) /\ JsParses(node.value)
      [] node.js \in {"function", "lambda"} ->
            /\ node.js = "function" => ~is_js_reserved(node.name)
            /\ \A i \in DOMAIN node.params : ~is_js_reserved(node.params[i])
            /\ JsParses(node.result)
      [] node.js \in {"call", "method"} -> \A i \in DOMAIN node.args : JsParses(node.args[i])
      [] node.js = "apply" -> JsParses(node.callee) /\ \A i \in DOMAIN node.args : JsParses(node.args[i])
      [] node.js = "match" ->
            /\ JsParses(node.value)
            /\ \A i \in DOMAIN node.arms :
                  /\ JsParses(node.arms[i].test) /\ JsParses(node.arms[i].result)
                  /\ \A k \in DOMAIN node.arms[i].bindings : ~is_js_reserved(node.arms[i].bindings[k])

\* evaluation of an expression
RECURSIVE JsEval(_, _)
JsEval(node, scope) ==
    CASE node.js = "num" -> JsNumber(node.num, node.over)
      [] node.js = "bool" -> JsBoolean(node.val)
      [] node.js = "null" -> [jv |-> "null"]
      [] node.js = "id" -> JsLookup(scope, Len(scope), node.name)
      [] node.js = "minus" ->
            LET v == JsEval(node.operand, scope)
            IN  IF IsThrow(v) THEN v ELSE JsNegate(ToNumber(v))
      [] node.js = "infix" ->
            LET a == JsEval(node.lhs, scope)
            IN  IF IsThrow(a) THEN a
                ELSE IF node.sym = "&&" THEN (IF ToBoolean(a) THEN JsEval(node.rhs, scope) ELSE a)
                ELSE IF node.sym = "||" THEN (IF ToBoolean(a) THEN a ELSE JsEval(node.rhs, scope))
                ELSE LET b == JsEval(node.rhs, scope)
                     IN  IF IsThrow(b) THEN b ELSE JsInfixValue(node.sym, a, b)
      [] node.js = "cond" ->
            LET c == JsEval(node.test, scope)
            IN  IF IsThrow(c) THEN c
                ELSE IF ToBoolean(c) THEN JsEval(node.then, scope)
                ELSE JsEval(node.otherwise, scope)
      [] node.js = "let" ->
            LET v == JsEval(node.value, Append(scope, <<node.pattern, [jv |-> "uninitialized"]>>))
            IN  IF IsThrow(v) THEN v
                ELSE JsEval(node.result, Append(scope, <<node.pattern, v>>))
      \* the function of a Match: the arms are `if` statements in order; the
      \* names an arm declares are local to the block of its `if`
      [] node.js = "match" ->
            LET v == JsEval(node.value, Append(scope, <<node.scrutinee_var, [jv |-> "uninitialized"]>>))
                inner == Append(scope, <<node.scrutinee_var, v>>)
                block(arm) == inner \o [i \in DOMAIN arm.bindings |-> <<arm.bindings[i], v>>]
                from[i \in 1 .. Len(node.arms) + 1] ==
                    IF i > Len(node.arms) THEN JsThrow("Error")
                    ELSE LET test == JsEval(node.arms[i].test, inner)
                         IN  IF IsThrow(test) THEN test
                             ELSE IF ToBoolean(test) THEN JsEval(node.arms[i].result, block(node.arms[i]))
                             ELSE from[i + 1]
            IN  IF IsThrow(v) THEN v ELSE from[1]
      [] node.js = "lambda" ->
            [jv |-> "closure", params |-> node.params, result |-> node.result, scope |-> scope]
      \* a call: of a function expression, or of a function declared at the top
      \* level by a statement at the top level
      [] node.js = "apply" ->
            LET f == JsEval(node.callee, scope)
                args == [i \in DOMAIN node.args |-> JsEval(node.args[i], scope)]
                thrown == {i \in DOMAIN args : IsThrow(args[i])}
                bound == [i \in DOMAIN f.params |->
                             <<f.params[i], IF i <= Len(args) THEN args[i] ELSE [jv |-> "undefined"]>>]
            IN  CASE IsThrow(f) -> f
                  [] thrown # {} -> args[CHOOSE i \in thrown : \A j \in thrown : i <= j]
                  [] f.jv = "closure" -> JsEval(f.result, f.scope \o bound)
                  [] f.jv = "function" -> JsEval(f.result, scope \o bound)
                  [] OTHER -> JsThrow("TypeError")
      \* a call of a function of the preamble, or of ctx.observe inside a model
      \* function; Math.random() answers the draw bound in scope
      [] node.js \in {"call", "method"} ->
            LET args == [i \in DOMAIN node.args |-> JsEval(node.args[i], scope)]
                thrown == {i \in DOMAIN args : IsThrow(args[i])}
                r == JsLookup(scope, Len(scope), <<"Math.random">>)
                below(k) == JsInfixValue("<", r, JsNumber(k, 3)).val
            IN  CASE thrown # {} -> args[CHOOSE i \in thrown : \A j \in thrown : i <= j]
                  [] node.js = "method" ->
                        LET this == JsLookup(scope, Len(scope), node.object)
                            logpdf == bet_observe(args[1], args[2])
                        IN  IF IsThrow(this) THEN this
                            ELSE IF IsThrow(logpdf) THEN logpdf
                            ELSE [jv |-> "undefined"]
                  [] node.fn = "__bet_uniform" ->
                        IF below(1) THEN args[1] ELSE IF below(2) THEN args[2] ELSE args[3]
                  [] node.fn = "__bet_dist_bernoulli" -> [jv |-> "dist", name |-> "bernoulli", p |-> args[1]]
                  [] node.fn = "__bet_observe" -> bet_observe(args[1], args[2])

\* the operand of node that is evaluated first and decides which of the
\* others are evaluated
JsFirst(node) ==
    CASE node.js = "let" -> node.value
      [] node.js = "infix" -> node.lhs
      [] node.js = "cond" -> node.test
      [] OTHER -> [js |-> "null"]

\* the operands of node that are evaluated, in order, each with the scope it
\* is evaluated in; v is the value of JsFirst(node)
JsParts(node, scope, v) ==
    CASE node.js \in {"method", "call"} -> [i \in DOMAIN node.args |-> <<node.args[i], scope>>]
      [] node.js = "let" -> <<<<node.value, scope>>, <<node.result, Append(scope, <<node.pattern, v>>)>>>>
      [] node.js = "infix" ->
            IF (node.sym = "&&" /\ ~ToBoolean(v)) \/ (node.sym = "||" /\ ToBoolean(v))
            THEN <<<<node.lhs, scope>>>>
            ELSE <<<<node.lhs, scope>>, <<node.rhs, scope>>>>
      [] node.js = "cond" ->
            <<<<node.test, scope>>, <<IF ToBoolean(v) THEN node.then ELSE node.otherwise, scope>>>>
      [] node.js = "minus" -> <<<<node.operand, scope>>>>
      [] node.js \in {"num", "bool", "null", "id", "lambda"} -> <<>>

\* the calls of functions of the preamble, and of ctx.observe, that are made
\* while node is evaluated, in order, each with the values of its arguments
RECURSIVE JsCalls(_, _), JsPartsCalls(_, _, _, _)
JsCalls(node, scope) ==
    JsPartsCalls(node, scope, JsParts(node, scope, JsEval(JsFirst(node), scope)), 1)

\* the calls made by the operands from the i-th on, then the call that node is
JsPartsCalls(node, scope, parts, i) ==
    IF i <= Len(parts)
    THEN JsCalls(parts[i][1], parts[i][2]) \o JsPartsCalls(node, scope, parts, i + 1)
    ELSE IF node.js \in {"method", "call"}
    THEN <<[fn |-> IF node.js = "method" THEN "ctx.observe" ELSE node.fn,
            args |-> [k \in DOMAIN parts |-> JsEval(parts[k][1], scope)]]>>
    ELSE <<>>

\* early error: a name declared with const is declared twice, or is also
\* declared as a function
Redeclares(stmts) ==
    LET consts == {i \in DOMAIN stmts : stmts[i].js = "const"}
        functions == {stmts[i].name : i \in {j \in DOMAIN stmts : stmts[j].js = "function"}}
    IN  \E i \in consts :
           \/ \E j \in consts : i # j /\ stmts[i].name = stmts[j].name
           \/ stmts[i].name \in functions

\* the statements in order; last is the value of the last expression statement
RECURSIVE JsRunStatements(_, _, _, _)
JsRunStatements(stmts, i, scope, last) ==
    IF i > Len(stmts) THEN last
    ELSE LET st == stmts[i]
         IN  IF st.js = "function" THEN JsRunStatements(stmts, i + 1, scope, last)
             ELSE LET v == JsEval(st.value, scope)
                  IN  IF IsThrow(v) THEN v
                      ELSE IF st.js = "const"
                      THEN JsRunStatements(stmts, i + 1, Append(scope, <<st.name, v>>), last)
                      ELSE JsRunStatements(stmts, i + 1, scope, v)

RECURSIVE CodeOf(_, _)
CodeOf(out, i) ==
    IF i > Len(out) THEN <<>>
    ELSE (IF out[i].chunk = "code" THEN <<out[i].tree>> ELSE <<>>) \o CodeOf(out, i + 1)

\* function declarations are hoisted: they are bound before the first statement
RECURSIVE Hoisted(_, _)
Hoisted(stmts, i) ==
    IF i > Len(stmts) THEN <<>>
    ELSE (IF stmts[i].js = "function"
          THEN <<<<stmts[i].name, [jv |-> "function", name |-> stmts[i].name,
                                   params |-> stmts[i].params, result |-> stmts[i].result]>>>>
          ELSE <<>>)
         \o Hoisted(stmts, i + 1)

\* the host loads the generated code as a script and runs it
JsRunScript(out, draw) ==
    LET stmts == CodeOf(out, 1)
    IN  IF (\E i \in DOMAIN stmts : ~JsParses(stmts[i])) \/ Redeclares(stmts)
        THEN JsThrow("SyntaxError")
        ELSE JsRunStatements(stmts, 1, <<<<<<"Math.random">>, JsNumber(draw, 3)>>>> \o Hoisted(stmts, 1),
                             [jv |-> "undefined"])

\* the code generator at work: what it was given, what it has emitted (out),
\* and what a JavaScript host made of the output (result)
\* draw is what Math.random answered in the run, in thirds; the calls of one
\* run are given the same answer
CgIdle ==
    [pc |-> "idle", kind |-> "none", names |-> <<>>, items |-> <<>>, out |-> <<>>, result |-> <<>>,
     draw |-> <<>>]

\* codegen(expr, Target::JavaScript) on the expression eval has returned from
CodegenJs ==
    /\ host = "eval" /\ status = "done"
    /\ cg.pc = "idle"
    /\ Emittable(expr0)
    /\ cg' = [cg EXCEPT !.pc = "emitted", !.kind = "expr", !.out = codegen_js(expr0)]
    /\ UNCHANGED <<host, evalVars, js, rt, infer, data, doc>>

\* codegen_module(module, Target::JavaScript)
CodegenModuleJs ==
    /\ host = "cg"
    /\ cg.pc = "call" /\ cg.kind = "module"
    /\ cg' = [cg EXCEPT !.pc = "emitted", !.out = codegen_module_js(cg.items)]
    /\ UNCHANGED <<host, evalVars, js, rt, infer, data, doc>>

\* a JavaScript host runs the code produced
JsRun ==
    /\ cg.pc = "emitted"
    /\ \E draw \in 0 .. 2 :
          cg' = [cg EXCEPT !.pc = "ran", !.result = <<JsRunScript(cg.out, draw)>>, !.draw = <<draw>>]
    /\ UNCHANGED <<host, evalVars, js, rt, infer, data, doc>>

\* sanitize_js_ident is called on the next of the names
SanitizeJsIdent ==
    /\ host = "cg"
    /\ cg.pc = "call" /\ cg.kind = "ident"
    /\ Len(cg.out) < Len(cg.names)
    /\ cg' = [cg EXCEPT !.out = Append(@, sanitize_js_ident(as_str(cg.names[Len(cg.out) + 1])))]
    /\ UNCHANGED <<host, evalVars, js, rt, infer, data, doc>>

\* top-level items: x defined as a constant (twice), as a function, a
\* function f, a type definition, an import, a reference to x
ModuleItems ==
    {ItemLet("x", <<>>, ExprInt(1)), ItemLet("x", <<>>, ExprInt(2)),
     ItemLet("x", <<X>>, ExprVar("x")), ItemLet("f", <<X, PatternWildcard>>, ExprVar("x")),
     ItemTypeDef, ItemImport(<<"a", "b">>), ItemExpr(ExprVar("x"))}

\* matches on k: an arm that binds n under a guard on n, arms in order with
\* and without guards
MatchExprs ==
    {ExprMatchArms(ExprInt(k), arms) :
        k \in 1 .. 2,
        arms \in {<<MatchArm(PatternVar("n"), <<ExprBinOp("Gt", ExprVar("n"), ExprInt(1))>>, ExprVar("n")),
                    MatchArm(PatternWildcard, <<>>, ExprInt(20))>>,
                  <<MatchArm(PatternLiteral(1), <<>>, ExprInt(10)), MatchArm(PatternVar("n"), <<>>, ExprVar("n"))>>,
                  <<MatchArm(PatternLiteral(1), <<ExprBool(FALSE)>>, ExprInt(10)),
                    MatchArm(PatternVar("n"), <<ExprBool(TRUE)>>, ExprVar("n"))>>,
                  <<MatchArm(PatternLiteral(1), <<>>, ExprInt(10))>>}}

\* a binary operator of the generated code applied to a bet and a number,
\* the bet on either side
BinOpExprs ==
    LET bet == ExprBet(ExprInt(1), ExprInt(0), ExprInt(-1))
    IN  UNION {{ExprBinOp(bop, bet, ExprInt(3)), ExprBinOp(bop, ExprInt(3), bet)} :
                  bop \in InfixOps \cup {"Xor", "Compose"}}

\* identifiers of the language, words that JavaScript reserves among them
BinderSymbols == {"new", "try", "_new", "x", "xs", "a_b"}

\* an identifier bound at each kind of binder and referred to in its scope,
\* in a program that yields 1: a top-level let, a top-level function's name
\* and its parameter, a Lambda parameter, a Let pattern, a Match arm
BinderModules ==
    UNION {{<<ItemLet(sym, <<>>, ExprInt(1)), ItemExpr(ExprVar(sym))>>,
            <<ItemLet(sym, <<PatternVar("x")>>, ExprVar("x")),
              ItemExpr(ExprApp(ExprVar(sym), <<ExprInt(1)>>))>>,
            <<ItemLet("f", <<PatternVar(sym)>>, ExprVar(sym)),
              ItemExpr(ExprApp(ExprVar("f"), <<ExprInt(1)>>))>>,
            <<ItemExpr(ExprApp(ExprLambda(<<PatternVar(sym)>>, ExprVar(sym)), <<ExprInt(1)>>))>>,
            <<ItemExpr(ExprLet(PatternVar(sym), ExprInt(1), ExprVar(sym), FALSE))>>,
            <<ItemExpr(ExprMatchArms(ExprInt(1), <<MatchArm(PatternVar(sym), <<>>, ExprVar(sym))>>))>>} :
               sym \in BinderSymbols}

Modules ==
    UNION {[1 .. n -> ModuleItems] : n \in 0 .. MaxItems}
    \cup {<<ItemExpr(e)>> : e \in MatchExprs \cup BinOpExprs}
    \cup BinderModules

-----------------------------------------------------------------------------
(* Inference functions of the JavaScript runtime preamble.  `infer` is the   *)
(* activation of one of them: its arguments, its locals, and `calls`, the    *)
(* number of times it has invoked modelFn.                                   *)

\* the factor in `const maxAttempts = n * 100`
MaxAttemptsFactor == 100

\* the sample counts asked for
MaxSamples == 2

\* expr is the Infer expression whose translation runs, where there is one
InferIdle ==
    [pc |-> "idle", fn |-> "none", n |-> 0, expr |-> ExprUnit, modelFn |-> [jv |-> "undefined"],
     calls |-> 0, attempts |-> 0, samples |-> <<>>, weights |-> <<>>, i |-> 0, resampled |-> <<>>]

\* what a model function handed to __bet_infer_rejection may return
ModelResults == {[jv |-> "undefined"], [jv |-> "null"], JsNumber(0, 1), JsBoolean(FALSE)}

\* `result !== undefined` alone
rejection_keeps_NotUndefined(result) == result # [jv |-> "undefined"]

\* `result !== undefined && result !== null`
rejection_keeps(result) == result # [jv |-> "undefined"] /\ result # [jv |-> "null"]

\* __bet_infer_rejection(modelFn, n): the declarations before the loop, one
\* turn of the `while`, or `return samples`
InferRejection ==
    /\ host = "infer"
    /\ infer.fn = "rejection"
    /\ \/ /\ infer.pc = "call"
          /\ infer' = [infer EXCEPT !.pc = "loop", !.samples = <<>>, !.attempts = 0]
       \/ /\ infer.pc = "loop"
          /\ IF Len(infer.samples) < infer.n /\ infer.attempts < infer.n * MaxAttemptsFactor
             THEN \E result \in ModelResults :
                     infer' = [infer EXCEPT !.attempts = @ + 1, !.calls = @ + 1,
                                            !.samples = IF rejection_keeps(result)
                                                        THEN Append(@, result) ELSE @]
             ELSE infer' = [infer EXCEPT !.pc = "done"]
    /\ UNCHANGED <<host, evalVars, js, rt, cg, data, doc>>

\* the loop `for (let j = 0; j < n; j++) { cumul += weights[j]; if (r < cumul)
\* { resampled.push(samples[j]); break; } }`: the 1-based j pushed, or 0
RECURSIVE importance_pick(_, _, _, _)
importance_pick(weights, r, j, cumul) ==
    IF j > Len(weights) THEN 0
    ELSE LET c == JsInfixValue("+", cumul, weights[j])
         IN  IF JsInfixValue("<", r, c).val THEN j ELSE importance_pick(weights, r, j + 1, c)

\* `Math.exp(logWeight)` after the calls of a trial, each ctx.observe(dist,
\* val) among them having done `logWeight += __bet_observe(dist, val)`
importance_weight(calls) ==
    LET added == SelectSeq(calls, LAMBDA c : c.fn = "ctx.observe")
        logWeight[k \in 0 .. Len(added)] ==
            IF k = 0 THEN JsNumber(0, 1)
            ELSE JsInfixValue("+", logWeight[k - 1], bet_observe(added[k].args[1], added[k].args[2]))
    \* Math.exp, needed at 0 and at -Infinity only
    IN  CASE logWeight[Len(added)] = JsNumber(0, 1) -> JsNumber(1, 1)
          [] logWeight[Len(added)] = JsNumber(-1, 0) -> JsNumber(0, 1)

\* __bet_infer_importance(modelFn, n): the declarations, one turn of the
\* first `for` (a trial), or the step from the first loop to the second.
\* draw is what Math.random() answers inside this trial, in thirds
InferImportanceTrial ==
    /\ host = "infer"
    /\ infer.fn = "importance"
    /\ \/ /\ infer.pc = "call"
          /\ infer' = [infer EXCEPT !.pc = "trials", !.samples = <<>>, !.weights = <<>>, !.i = 0]
       \/ /\ infer.pc = "trials"
          /\ IF infer.i < infer.n
             THEN \E draw \in 0 .. 2 :
                     LET f == infer.modelFn
                         scope == f.scope \o <<<<<<"Math.random">>, JsNumber(draw, 3)>>>>
                                  \o (IF f.params = <<>> THEN <<>> ELSE <<<<f.params[1], [jv |-> "ctx"]>>>>)
                         val == JsEval(f.result, scope)
                     IN  IF IsThrow(val)
                         THEN infer' = [infer EXCEPT !.pc = "thrown", !.calls = @ + 1]
                         ELSE infer' = [infer EXCEPT !.calls = @ + 1, !.i = @ + 1,
                                                     !.samples = Append(@, val),
                                                     !.weights = Append(@, importance_weight(JsCalls(f.result, scope)))]
             ELSE infer' = [infer EXCEPT !.pc = "resample", !.i = 0, !.resampled = <<>>]
    /\ UNCHANGED <<host, evalVars, js, rt, cg, data, doc>>

\* one turn of the second `for`, or `return resampled`.  The weights are 0
\* or 1 here, so of r = Math.random() * totalW only the integer part matters
InferImportanceResample ==
    /\ host = "infer"
    /\ infer.fn = "importance"
    /\ infer.pc = "resample"
    /\ IF infer.i < infer.n
       THEN LET totalW[k \in 0 .. Len(infer.weights)] ==
                    IF k = 0 THEN JsNumber(0, 1) ELSE JsInfixValue("+", totalW[k - 1], infer.weights[k])
                total == totalW[Len(infer.weights)].num
            IN  \E r \in (IF total > 0 THEN 0 .. total - 1 ELSE {0}) :
                   LET j == importance_pick(infer.weights, JsNumber(r, 1), 1, JsNumber(0, 1))
                   IN  infer' = [infer EXCEPT !.i = @ + 1,
                                              !.resampled = IF j > 0 THEN Append(@, infer.samples[j]) ELSE @]
       ELSE infer' = [infer EXCEPT !.pc = "done"]
    /\ UNCHANGED <<host, evalVars, js, rt, cg, data, doc>>

\* models of an infer expression: x drawn by a bet and observed under
\* bernoulli(1), an observation that has density 0, no observation
InferModels ==
    LET bernoulli1 == ExprApp(ExprVar("bernoulli"), <<ExprInt(1)>>)
    IN  {ExprLet(PatternVar("x"), ExprBet(ExprInt(1), ExprInt(0), ExprInt(0)),
                 ExprLet(PatternWildcard, ExprObserve(bernoulli1, ExprVar("x")), ExprVar("x"), FALSE), FALSE),
         ExprObserve(bernoulli1, ExprInt(0)),
         ExprInt(1)}

InferExprs == {ExprInfer("Importance", <<<<"samples", ExprInt(MaxSamples)>>>>, m) : m \in InferModels}

\* a model function written in JavaScript against the ctx handed to it:
\* function(ctx) { const x = __bet_uniform(a, 0, 0); return (ctx.observe(__bet_dist_bernoulli(1), x), x); }
CtxModel(a) ==
    [jv |-> "closure", params |-> <<<<"c", "t", "x">>>>, scope |-> <<>>,
     result |-> [js |-> "let", pattern |-> <<"x">>,
                 value |-> [js |-> "call", fn |-> "__bet_uniform", args |-> <<JsNum(a, 1), JsNum(0, 1), JsNum(0, 1)>>],
                 result |-> JsInfix(",", [js |-> "method", object |-> <<"c", "t", "x">>, name |-> "observe",
                                          args |-> <<[js |-> "call", fn |-> "__bet_dist_bernoulli", args |-> <<JsNum(1, 1)>>],
                                                     [js |-> "id", name |-> <<"x">>]>>],
                                 [js |-> "id", name |-> <<"x">>])]]

-----------------------------------------------------------------------------
(* bet-rt: persistent collections (runtime/bet-rt/src/data.rs).  An          *)
(* im::Vector is a sequence; None is <<>> and Some(x) is <<x>>.  `data` is a  *)
(* caller that holds a collection and applies operations to it: `calls`      *)
(* records each call and what it returned.                                   *)

\* the number of operations a caller applies to its queue
MaxQueueOps == 4

Queue_new == [front |-> <<>>, back |-> <<>>]

Queue_from_list(list) == [front |-> list, back |-> <<>>]

\* new_back.push_back(value)
Queue_enqueue(self, value) == [front |-> self.front, back |-> Append(self.back, value)]

\* None, or Some((value, queue))
Queue_dequeue(self) ==
    IF self.front = <<>>
    THEN IF self.back = <<>> THEN <<>>
         ELSE LET \* self.back.iter().cloned().rev().collect()
                  new_front == [i \in 1 .. Len(self.back) |-> self.back[Len(self.back) + 1 - i]]
              IN  <<<<Head(new_front), [front |-> Tail(new_front), back |-> <<>>]>>>>
    ELSE <<<<Head(self.front), [front |-> Tail(self.front), back |-> self.back]>>>>

\* the values put into queues
QueueValues == {ValueInt(1), ValueInt(2)}

\* let q = q.enqueue(value)
QueueEnqueue ==
    /\ host = "data"
    /\ data.kind = "queue"
    /\ Len(data.calls) < MaxQueueOps
    /\ \E value \in QueueValues :
          data' = [data EXCEPT !.queue = Queue_enqueue(@, value),
                               !.calls = Append(@, [f |-> "enqueue", arg |-> <<value>>, out |-> <<>>])]
    /\ UNCHANGED <<host, evalVars, js, rt, cg, infer, doc>>

\* match q.dequeue() { Some((v, rest)) => q = rest, None => () }
QueueDequeue ==
    /\ host = "data"
    /\ data.kind = "queue"
    /\ Len(data.calls) < MaxQueueOps
    /\ LET r == Queue_dequeue(data.queue)
       IN  data' = [data EXCEPT !.queue = IF r = <<>> THEN @ ELSE r[1][2],
                                !.calls = Append(@, [f |-> "dequeue", arg |-> <<>>,
                                                     out |-> IF r = <<>> THEN <<>> ELSE <<r[1][1]>>])]
    /\ UNCHANGED <<host, evalVars, js, rt, cg, infer, doc>>

\* im::HashMap::union: the union of two maps, which keeps the value of self
\* for a key that both maps hold.  A map is a function on its keys
HashMap_union(self, other) ==
    [k \in DOMAIN self \cup DOMAIN other |-> IF k \in DOMAIN self THEN self[k] ELSE other[k]]

\* map::merge: a.clone().union(b.clone())
map_merge(a, b) == HashMap_union(a, b)

\* let merged = map::merge(&a, &b)
MapMerge ==
    /\ host = "data"
    /\ data.kind = "map"
    /\ data.out = <<>>
    /\ data' = [data EXCEPT !.out = <<map_merge(data.a, data.b)>>]
    /\ UNCHANGED <<host, evalVars, js, rt, cg, infer, doc>>

\* maps with keys among "a" and "b"
Maps == UNION {[keys -> QueueValues] : keys \in SUBSET {"a", "b"}}

\* the lists handed to Queue::from_list
QueueLists == UNION {[1 .. n -> QueueValues] : n \in 0 .. 2}

-----------------------------------------------------------------------------
(* bet-lsp: DocumentState (tools/bet-lsp/src/document.rs) and LineIndex      *)
(* (utils.rs).  A source text is a sequence of ASCII characters, so that a   *)
(* byte offset is a count of characters; offsets count from 0 as in the      *)
(* source, sequences from 1.                                                 *)

\* the length of the texts opened
MaxTextLen == 3

\* LineIndex::new: line_starts, the offset after every '\n'
RECURSIVE LineIndex_new(_, _)
LineIndex_new(text, i) ==
    IF i = 0 THEN <<0>>
    ELSE LineIndex_new(text, i - 1) \o (IF text[i] = "\n" THEN <<i>> ELSE <<>>)

\* LineIndex::position_to_offset: `*self.line_starts.get(line as usize)?`
position_to_offset(line_starts, line, character) ==
    IF line + 1 > Len(line_starts) THEN <<>> ELSE <<line_starts[line + 1] + character>>

\* DocumentState::word_at_position on the document DocumentState::new made
\* of source.  Slicing a str past its end panics
word_at_position(source, line, character) ==
    LET offset == position_to_offset(LineIndex_new(source, Len(source)), line, character)
        boundary(k) == ~(source[k] \in {"a", "1", "_", "-"})
        before == {k \in 1 .. offset[1] : boundary(k)}
        after == {k \in offset[1] + 1 .. Len(source) : boundary(k)}
        \* rfind(..).map(|i| i + 1).unwrap_or(0)
        start == IF before = {} THEN 0 ELSE CHOOSE k \in before : \A j \in before : j <= k
        \* find(..).map(|i| offset + i).unwrap_or(self.source.len())
        end == IF after = {} THEN Len(source) ELSE (CHOOSE k \in after : \A j \in after : k <= j) - 1
    IN  IF offset = <<>> THEN [tag |-> "Option", val |-> <<>>]
        ELSE IF offset[1] > Len(source) THEN PANIC
        ELSE IF start < end THEN [tag |-> "Option", val |-> <<SubSeq(source, start + 1, end)>>]
        ELSE [tag |-> "Option", val |-> <<>>]

\* doc.word_at_position(line, character)
WordAtPosition ==
    /\ host = "lsp"
    /\ doc.out = <<>>
    /\ doc' = [doc EXCEPT !.out = <<word_at_position(doc.source, doc.line, doc.character)>>]
    /\ UNCHANGED <<host, evalVars, js, rt, cg, infer, data>>

\* texts of letters, dashes, blanks and line ends
Texts == UNION {[1 .. n -> {"a", "-", " ", "\n"}] : n \in 0 .. MaxTextLen}

-----------------------------------------------------------------------------
(* Specification *)

Init ==
    /\ host \in {"eval", "js", "rt", "cg", "infer", "data", "lsp"}
    /\ IF host = "eval"
       THEN /\ expr0 \in Programs
            /\ env0 \in Envs
            /\ stack = <<Frame(expr0)>>
            /\ envs = <<env0>>
            /\ status = "running"
       ELSE /\ expr0 = ExprUnit
            /\ env0 = EnvNew
            /\ stack = <<>>
            /\ envs = <<>>
            /\ status = "idle"
    /\ js \in IF host = "js"
              THEN {[JsIdle EXCEPT !.pc = "call", !.alts = <<1, 2, 3>>, !.weights = <<a, b, c>>] :
                       a \in JsWeights, b \in JsWeights, c \in JsWeights}
              ELSE {JsIdle}
    /\ rt \in IF host = "rt"
              THEN {[RtIdle EXCEPT !.pc = "run", !.x0 = t, !.x = t] : t \in TernaryValues}
              ELSE {RtIdle}
    /\ closures = <<>>
    /\ ret = NONE
    /\ cg \in IF host = "cg"
              THEN {[CgIdle EXCEPT !.pc = "call", !.kind = "ident", !.names = <<a, b>>] :
                       a \in Symbols, b \in Symbols}
                   \cup {[CgIdle EXCEPT !.pc = "call", !.kind = "module", !.items = m] : m \in Modules}
              ELSE {CgIdle}
    /\ infer \in IF host = "infer"
                 THEN {[InferIdle EXCEPT !.pc = "call", !.fn = "rejection", !.n = n] : n \in 0 .. MaxSamples}
                      \cup {[InferIdle EXCEPT !.pc = "call", !.fn = "importance", !.n = n, !.modelFn = CtxModel(a)] :
                               n \in 0 .. MaxSamples, a \in 0 .. 1}
                      \cup {[InferIdle EXCEPT !.pc = "call", !.fn = "importance", !.n = n, !.expr = e,
                                              !.modelFn = JsEval(emit_js_expr(e).args[3], <<>>)] :
                               n \in 0 .. MaxSamples, e \in InferExprs}
                 ELSE {InferIdle}
    /\ data \in IF host = "data"
                THEN {[kind |-> "queue", list |-> <<>>, queue |-> Queue_new, calls |-> <<>>]}
                     \cup {[kind |-> "queue", list |-> l, queue |-> Queue_from_list(l), calls |-> <<>>] :
                              l \in QueueLists}
                     \cup {[kind |-> "map", a |-> a, b |-> b, out |-> <<>>] : a \in Maps, b \in Maps}
                ELSE {[kind |-> "none"]}
    /\ doc \in IF host = "lsp"
               THEN {[source |-> t, line |-> l, character |-> c, out |-> <<>>] :
                        t \in Texts, l \in 0 .. MaxTextLen, c \in 0 .. MaxTextLen + 1}
               ELSE {[source |-> <<>>, line |-> 0, character |-> 0, out |-> <<>>]}

Next ==
    \/ Receive
    \/ PropagateErr
    \/ Finish
    \/ EvalLiteral
    \/ EvalVar
    \/ EvalBet
    \/ EvalWeightedBet
    \/ EvalConditionalBet
    \/ EvalLet
    \/ EvalIf
    \/ EvalLambda
    \/ EvalApp
    \/ EvalTransparent
    \/ EvalElems
    \/ EvalParallel
    \/ EvalBinOp
    \/ EvalUnOp
    \/ EvalCatchAll
    \/ JsBetWeightedEnter
    \/ JsBetWeightedLoop
    \/ TernaryNot
    \/ TernaryAnd
    \/ TernaryOr
    \/ TernaryMajority
    \/ SanitizeJsIdent
    \/ CodegenJs
    \/ CodegenModuleJs
    \/ JsRun
    \/ InferRejection
    \/ InferImportanceTrial
    \/ InferImportanceResample
    \/ QueueEnqueue
    \/ QueueDequeue
    \/ MapMerge
    \/ WordAtPosition

Spec == Init /\ [][Next]_vars

-----------------------------------------------------------------------------
(* Properties *)

\* an eval activation of a Bet expression is the current one
InBet == host = "eval" /\ status = "running" /\ stack # <<>> /\ Top.expr.op = "Bet"

\* C1: eval of a Bet evaluates a0, a1, a2 in this order, each only after the
\* ones before it have returned, and only then chooses; what it returns is one
\* of the three values already computed, every index being a possible choice;
\* an alternative that fails makes the Bet fail with that error.
C1_BetEvaluatesAllThenChooses ==
    /\ [][InBet =>
            \/ /\ ret = NONE /\ Len(Top.vals) < 3
               /\ stack' = Append(stack, Frame(Top.expr.alternatives[Len(Top.vals) + 1]))
            \/ /\ ret = NONE /\ Len(Top.vals) = 3
               /\ stack' = Pop(stack)
               /\ \E i \in 1 .. 3 : ret' = Top.vals[i]
            \/ /\ ret # NONE /\ ~IsErr(ret)
               /\ stack' = SetTop(stack, [Top EXCEPT !.vals = Append(@, ret), !.pc = @ + 1])
            \/ /\ IsErr(ret)
               /\ stack' = Pop(stack) /\ ret' = ret]_vars
    /\ [](InBet /\ ret = NONE /\ Len(Top.vals) = 3 =>
            \A i \in 1 .. 3 : ENABLED (Next /\ ret' = Top.vals[i]))

\* the third alternative, a Let, was evaluated and its value chosen
C1_Witness ==
    /\ status = "done"
    /\ expr0 = ExprBet(ExprInt(1), ExprInt(2), ExprLet(X, ExprInt(5), ExprVar("x"), FALSE))
    /\ ret = ValueInt(5)

\* sum of the first i weights
RECURSIVE Cumulative(_, _)
Cumulative(ws, i) == IF i = 0 THEN 0 ELSE ws[i] + Cumulative(ws, i - 1)

\* r, in half quanta, lies below the cumulative weight of alternative i
Exceeds(ws, i, r) == r < 2 * Cumulative(ws, i)

IsFirstExceeding(ws, i, r) == Exceeds(ws, i, r) /\ \A j \in 1 .. (i - 1) : ~Exceeds(ws, j, r)

NonNegative(ws) == \A i \in DOMAIN ws : ws[i] >= 0

\* the weighted bet of the evaluator has evaluated its pairs
WeightedReady == At("WeightedBet") /\ Top.pc = 6

EvalWeights == [i \in 1 .. 3 |-> weight_f64(Top.vals[2 * i])]

\* C2: with non-negative weights of total T > 0 and r drawn in [0, T), both
\* eval_weighted_bet and __bet_weighted return the first alternative whose
\* cumulative weight exceeds r; a weight 0 alternative is never returned and
\* every alternative of positive weight is returned for some r.
C2_WeightedFirstExceeding ==
    /\ [][WeightedReady /\ Top.aux # <<>> /\ NonNegative(EvalWeights) /\ SumFrom(EvalWeights, 1) > 0 =>
            \E i \in 1 .. 3 :
                /\ IsFirstExceeding(EvalWeights, i, Top.aux[1])
                /\ EvalWeights[i] > 0
                /\ ret' = Top.vals[2 * i - 1]]_vars
    /\ [](WeightedReady /\ Top.aux = <<>> /\ NonNegative(EvalWeights) /\ SumFrom(EvalWeights, 1) > 0 =>
            \A i \in 1 .. 3 : EvalWeights[i] > 0 =>
                \E r \in gen_times_total(SumFrom(EvalWeights, 1)) :
                    ENABLED (Next /\ stack' = SetTop(stack, [Top EXCEPT !.aux = <<r>>])
                                  /\ IsFirstExceeding(EvalWeights, i, r)))
    /\ [](host = "js" /\ js.pc = "done" /\ NonNegative(js.weights) /\ js.total > 0 =>
            \E i \in 1 .. 3 :
                /\ IsFirstExceeding(js.weights, i, js.r)
                /\ js.weights[i] > 0
                /\ js.ret = js.alts[i])
    /\ [](host = "js" /\ js.pc = "call" /\ NonNegative(js.weights) /\ SumFrom(js.weights, 1) > 0 =>
            \A i \in 1 .. 3 : js.weights[i] > 0 =>
                \E r \in gen_times_total(SumFrom(js.weights, 1)) :
                    ENABLED (Next /\ js'.r = r /\ IsFirstExceeding(js.weights, i, r)))

\* __bet_weighted skipped a weight 0 alternative and returned the second one
C2_Witness ==
    /\ host = "js" /\ js.pc = "done"
    /\ js.weights = <<0, 1, FloatDen>>
    /\ js.r = 1
    /\ js.ret = 2

-----------------------------------------------------------------------------

IsLiteral(e) == e.op \in LiteralOps

\* the weights of a weighted bet whose weights are literals, in quanta
LiteralWeights(e) == [i \in 1 .. 3 |-> weight_f64(LiteralValue(e.alternatives[i][2]))]

\* C3: a WeightedBet whose Int or Float weights sum to T <= 0 returns the
\* value of its last alternative.
C3_NonPositiveTotalReturnsLast ==
    (/\ host = "eval" /\ status = "done"
     /\ expr0.op = "WeightedBet"
     /\ \A i \in 1 .. 3 : /\ expr0.alternatives[i][2].op \in {"Int", "Float"}
                          /\ IsLiteral(expr0.alternatives[i][1])
     /\ SumFrom(LiteralWeights(expr0), 1) <= 0)
    => ret = LiteralValue(expr0.alternatives[3][1])

\* truthy and falsy conditions as the specification of the conditional bet
\* lists them
SpecTruthy(v) ==
    \/ v.tag = "Bool" /\ v.val
    \/ v.tag \in {"Int", "Float"} /\ v.val # 0
    \/ v.tag = "Ternary" /\ v.val = "True"

SpecFalsy(v) ==
    \/ v.tag = "Bool" /\ ~v.val
    \/ v.tag \in {"Int", "Float"} /\ v.val = 0
    \/ v.tag = "Unit"
    \/ v.tag = "Ternary" /\ v.val \in {"False", "Unknown"}

\* C4: a ConditionalBet with a truthy condition returns the value of ifTrue,
\* one with a falsy condition returns the value of one of the three fallbacks.
C4_ConditionalBetFollowsCondition ==
    (/\ host = "eval" /\ status = "done"
     /\ expr0.op = "ConditionalBet"
     /\ IsLiteral(expr0.condition) /\ IsLiteral(expr0.if_true)
     /\ \A i \in 1 .. 3 : IsLiteral(expr0.if_false[i]))
    => /\ SpecTruthy(LiteralValue(expr0.condition)) => ret = LiteralValue(expr0.if_true)
       /\ SpecFalsy(LiteralValue(expr0.condition)) =>
              \E i \in 1 .. 3 : ret = LiteralValue(expr0.if_false[i])

\* the truthiness table
TableTruthy(v) ==
    CASE v.tag = "Unit" -> FALSE
      [] v.tag = "Bool" -> v.val
      [] v.tag = "Ternary" -> v.val = "True"
      [] v.tag \in {"Int", "Float"} -> v.val # 0
      [] v.tag = "String" -> v.val # ""
      [] v.tag \in {"List", "Tuple"} -> v.val # <<>>
      [] OTHER -> TRUE

\* C5: the branch an If takes is the one the truthiness table gives for the
\* value of its condition.
C5_IfFollowsTruthinessTable ==
    host = "eval" =>
        \A k \in 1 .. (Len(stack) - 1) :
            stack[k].expr.op = "If" /\ stack[k].pc = 1 =>
                stack[k + 1].expr = IF TableTruthy(stack[k].vals[1])
                                    THEN stack[k].expr.then_branch
                                    ELSE stack[k].expr.else_branch

Names == {"x", "y", "z", "f", "a", "b", "n", "u", "mk", "_"}

SameBindings(e1, e2) == \A name \in Names : EnvLookup(e1, name) = EnvLookup(e2, name)

\* C6: once a Let has returned, the environment maps every name to what it
\* mapped before the Let was evaluated.
C6_LetRestoresEnvironment ==
    (host = "eval" /\ status = "done" /\ expr0.op = "Let") => SameBindings(envs[1], env0)

\* C7: every evaluation of the body of a Parallel starts in the environment
\* of the Parallel site.
C7_ParallelIterationsSeeSiteEnvironment ==
    (/\ At("Parallel") /\ Len(stack) = 1
     /\ IsLiteral(Top.expr.n_expr)
     /\ Top.aux # <<>> /\ Top.pc - 1 < Top.aux[1])
    => SameBindings(Env, env0)

\* the closure f is about to be applied by the current App activation
Applying == At("App") /\ Top.pc = Len(Top.expr.args) + 1 /\ Top.vals[1].tag = "Closure"

\* the argument the application binds to name: the last parameter of that name
\* that has an argument
BoundArg(params, args, name) ==
    LET hits == {i \in 1 .. Len(params) : i <= Len(args) /\ params[i] = name}
    IN  IF hits = {} THEN NONE
        ELSE args[CHOOSE i \in hits : \A j \in hits : j <= i]

\* C8: a closure's captured environment is the environment of its Lambda at the
\* time the Lambda was evaluated, nothing changes it afterwards, and every
\* application starts from the captured bindings extended with the parameters.
C8_CapturedEnvironmentIsFixed ==
    [][host = "eval" =>
        /\ \A c \in DOMAIN closures : c \in DOMAIN closures' /\ closures'[c] = closures[c]
        /\ At("Lambda") => /\ Len(closures') = Len(closures) + 1
                           /\ closures'[Len(closures')].env = Env
        /\ Applying =>
             LET cl == closures[Top.vals[1].val]
                 args == SubSeq(Top.vals, 2, Len(Top.vals))
             IN  /\ Len(envs') = Len(envs) + 1
                 /\ \A name \in Names :
                        EnvLookup(envs'[Len(envs')], name) =
                            IF BoundArg(cl.params, args, name) # NONE
                            THEN BoundArg(cl.params, args, name)
                            ELSE EnvLookup(cl.env, name)]_vars

\* f captured x = 7; x was rebound to 8 before f was applied, and f answered 7
C8_Witness ==
    /\ host = "eval" /\ status = "done"
    /\ expr0 = ExprLet(F, ExprLambda(<<>>, ExprVar("x")),
                       ExprLet(X, ExprInt(8), ExprApp(ExprVar("f"), <<>>), FALSE), FALSE)
    /\ EnvLookup(env0, "x") = ValueInt(7)
    /\ EnvLookup(envs[1], "x") = ValueInt(8)
    /\ closures[1].env = env0
    /\ ret = ValueInt(7)

\* C9: in `let rec name = fun .. in body` the closure can refer to name: the
\* reference never fails with UndefinedVariable.
C9_RecLetBindsItsName ==
    (/\ host = "eval" /\ status = "done"
     /\ expr0.op = "Let" /\ expr0.is_rec
     /\ expr0.value.op = "Lambda" /\ expr0.pattern.p = "Var")
    => ret # UndefinedVariable(expr0.pattern.sym)

\* C10: Parallel(n, body) fails with 'parallel count must be an integer' when
\* n is not an Int, and otherwise yields the List of the n results of body.
C10_ParallelResult ==
    (/\ host = "eval" /\ status \in {"done", "panic"}
     /\ expr0.op = "Parallel" /\ IsLiteral(expr0.n_expr))
    => /\ status = "done"
       /\ IF expr0.n_expr.op # "Int"
          THEN ret = Runtime("parallel count must be an integer")
          ELSE \/ IsErr(ret)
               \/ /\ ret.tag = "List"
                  /\ Len(ret.val) = expr0.n_expr.i
                  /\ IsLiteral(expr0.body) =>
                        \A i \in 1 .. Len(ret.val) : ret.val[i] = LiteralValue(expr0.body)

-----------------------------------------------------------------------------
(* Match *)

\* a pattern of an arm accepts the scrutinee value
ArmPatternAccepts(pat, v) ==
    CASE pat.p = "Literal" -> v = ValueInt(pat.lit)
      [] pat.p \in {"Var", "Wildcard"} -> TRUE
      [] OTHER -> FALSE

\* an arm is taken: its pattern accepts v and its (literal) guard, if any, holds
ArmTaken(arm, v) ==
    /\ ArmPatternAccepts(arm.pattern, v)
    /\ arm.guard = <<>> \/ arm.guard[1] = ExprBool(TRUE)

\* index of the first arm taken from the i-th on, 0 when there is none
RECURSIVE FirstArm(_, _, _)
FirstArm(arms, v, i) ==
    IF i > Len(arms) THEN 0
    ELSE IF ArmTaken(arms[i], v) THEN i
    ELSE FirstArm(arms, v, i + 1)

\* the value of the body of an arm: a literal, or the variable its pattern bound
ArmBodyValue(arm, v) == IF arm.body.op = "Var" THEN v ELSE LiteralValue(arm.body)

\* C11: eval of a Match returns the body of the first arm whose pattern and
\* guard match the scrutinee, and fails with NonExhaustiveMatch when no arm
\* matches.
C11_MatchFirstArmOrNonExhaustive ==
    (/\ host = "eval" /\ status = "done"
     /\ expr0.op = "Match" /\ "arms" \in DOMAIN expr0)
    => LET v == LiteralValue(expr0.scrutinee)
           k == FirstArm(expr0.arms, v, 1)
       IN  IF k = 0
           THEN IsErr(ret) /\ ret.val.kind = "NonExhaustiveMatch"
           ELSE ret = ArmBodyValue(expr0.arms[k], v)

-----------------------------------------------------------------------------
(* Operators *)

IsNumericLiteral(e) == e.op \in {"Int", "Float"}

ZeroLiteral(e) == (e.op = "Int" /\ e.i = 0) \/ (e.op = "Float" /\ e.f = 0)

\* C12: an arithmetic operator (+ - * / % ^) on numeric operands with a
\* nonzero divisor succeeds, with an Int when both operands are Int and with
\* a Float when both are Float or one is Int and the other Float.
C12_ArithmeticIsPolymorphic ==
    (/\ host = "eval" /\ status = "done"
     /\ expr0.op = "BinOp" /\ expr0.bop \in ArithOps
     /\ IsNumericLiteral(expr0.lhs) /\ IsNumericLiteral(expr0.rhs)
     /\ ~(expr0.bop \in {"Div", "Mod"} /\ ZeroLiteral(expr0.rhs)))
    => /\ ~IsErr(ret)
       /\ ret.tag = IF expr0.lhs.op = "Int" /\ expr0.rhs.op = "Int" THEN "Int" ELSE "Float"

-----------------------------------------------------------------------------
(* Annotate *)

AnnotateOnTop ==
    /\ host = "eval" /\ status = "running"
    /\ stack # <<>>
    /\ Top.expr.op = "Annotate"

\* C14: eval(Annotate(e, T)) returns the same result (value or error) as
\* eval(e) and leaves the environment in the same state: the activation of
\* Annotate runs e once in its own environment, hands back exactly what e
\* handed back, and does not touch the environment itself.
C14_AnnotateIsTransparent ==
    [][AnnotateOnTop =>
          /\ envs' = envs
          /\ status' = status
          /\ IF ret = NONE
             THEN IF Top.pc = 0
                  THEN stack' = Append(stack, Frame(Top.expr.inner)) /\ ret' = NONE
                  ELSE stack' = Pop(stack) /\ ret' = Top.vals[1]
             ELSE IF IsErr(ret)
                  THEN stack' = Pop(stack) /\ ret' = ret
                  ELSE stack' = SetTop(stack, [Top EXCEPT !.vals = <<ret>>, !.pc = 1]) /\ ret' = NONE]_vars

\* an annotated Let has returned the value of its body and left its binding
C14_Witness ==
    /\ host = "eval" /\ status = "done"
    /\ expr0.op = "Annotate" /\ expr0.inner.op = "Let"
    /\ ret = ValueInt(5)
    /\ EnvLookup(envs[1], "y") = ValueInt(5)

-----------------------------------------------------------------------------
(* Ternary *)

Min(a, b) == IF a <= b THEN a ELSE b

Max(a, b) == IF a >= b THEN a ELSE b

CallsOf(f) == {i \in DOMAIN rt.calls : rt.calls[i].f = f}

\* C15: under the encoding False=0, Unknown=1/2, True=1, and(a, b) is the
\* argument with the smaller encoding and or(a, b) the one with the larger.
C15_AndIsMinOrIsMax ==
    /\ \A i \in CallsOf("and") :
          LET c == rt.calls[i]
          IN  Ternary_to_f64(c.out) = Min(Ternary_to_f64(c.args[1]), Ternary_to_f64(c.args[2]))
    /\ \A i \in CallsOf("or") :
          LET c == rt.calls[i]
          IN  Ternary_to_f64(c.out) = Max(Ternary_to_f64(c.args[1]), Ternary_to_f64(c.args[2]))

\* Unknown.and(Unknown) and then Unknown.or(False) have been called
C15_Witness ==
    /\ Len(rt.calls) = 2
    /\ rt.calls[1] = [f |-> "and", args |-> <<"Unknown", "Unknown">>, out |-> "Unknown"]
    /\ rt.calls[2] = [f |-> "or", args |-> <<"Unknown", "False">>, out |-> "Unknown"]

\* C16: not(not(t)) = t; and(t, True) = t and or(t, False) = t, in both
\* argument orders.
C16_TernaryIdentities ==
    /\ (/\ Len(rt.calls) = 2
        /\ rt.calls[1].f = "not" /\ rt.calls[2].f = "not"
        /\ rt.calls[2].args = <<rt.calls[1].out>>)
       => rt.calls[2].out = rt.calls[1].args[1]
    /\ \A i \in CallsOf("and") :
          LET c == rt.calls[i]
          IN  /\ c.args[2] = "True" => c.out = c.args[1]
              /\ c.args[1] = "True" => c.out = c.args[2]
    /\ \A i \in CallsOf("or") :
          LET c == rt.calls[i]
          IN  /\ c.args[2] = "False" => c.out = c.args[1]
              /\ c.args[1] = "False" => c.out = c.args[2]

\* Unknown has been negated twice
C16_Witness ==
    /\ rt.x0 = "Unknown"
    /\ Len(rt.calls) = 2
    /\ rt.calls[1].f = "not" /\ rt.calls[2].f = "not"
    /\ rt.x = "Unknown"

\* the encoding the claims name: False=0, Unknown=1/2, True=1, doubled
Encoded(t) == IF t = "True" THEN 2 ELSE IF t = "Unknown" THEN 1 ELSE 0

\* C17: majority(a, b, c) is True when the encoded sum a+b+c is >= 2, False
\* when it is <= 1 and Unknown otherwise; majority(True,True,False)=True,
\* majority(False,False,True)=False, majority(True,Unknown,False)=Unknown.
C17_MajorityThresholds ==
    \A i \in CallsOf("majority") :
       LET c == rt.calls[i]
           doubled == Encoded(c.args[1]) + Encoded(c.args[2]) + Encoded(c.args[3])
       IN  /\ doubled >= 4 => c.out = "True"
           /\ doubled <= 2 => c.out = "False"
           /\ (doubled > 2 /\ doubled < 4) => c.out = "Unknown"
           /\ c.args = <<"True", "True", "False">> => c.out = "True"
           /\ c.args = <<"False", "False", "True">> => c.out = "False"
           /\ c.args = <<"True", "Unknown", "False">> => c.out = "Unknown"

\* majority(Unknown, Unknown, True), on the >= 2 threshold, has been called
C17_Witness ==
    \E i \in CallsOf("majority") :
       /\ rt.calls[i].args = <<"Unknown", "Unknown", "True">>
       /\ rt.calls[i].out = "True"

-----------------------------------------------------------------------------
(* Identifiers *)

\* C18: sanitize_js_ident never returns a reserved JavaScript word, and two
\* different identifiers are never emitted as the same JavaScript identifier.
C18_SanitizeIsInjectiveAndUnreserved ==
    (cg.kind = "ident" /\ Len(cg.out) = 2)
    => /\ ~is_js_reserved(cg.out[1]) /\ ~is_js_reserved(cg.out[2])
       /\ as_str(cg.names[1]) # as_str(cg.names[2]) => cg.out[1] # cg.out[2]

-----------------------------------------------------------------------------
(* Evaluator against generated JavaScript *)

\* a deterministic expression over Bool, Int and Ternary literals with If,
\* Let, neg, not and + - * / % == != < <= > >= && ||, closed under bound
RECURSIVE Deterministic(_, _)
Deterministic(e, bound) ==
    CASE e.op \in {"Bool", "Int", "Ternary"} -> TRUE
      [] e.op = "Var" -> e.sym \in bound
      [] e.op = "If" ->
            /\ Deterministic(e.condition, bound)
            /\ Deterministic(e.then_branch, bound)
            /\ Deterministic(e.else_branch, bound)
      [] e.op = "Let" ->
            /\ e.pattern.p = "Var"
            /\ Deterministic(e.value, bound)
            /\ Deterministic(e.body, bound \cup {e.pattern.sym})
      [] e.op = "UnOp" -> e.uop \in {"Neg", "Not"} /\ Deterministic(e.operand, bound)
      [] e.op = "BinOp" ->
            e.bop \in InfixOps /\ Deterministic(e.lhs, bound) /\ Deterministic(e.rhs, bound)
      [] OTHER -> FALSE

\* the JavaScript value j is the value v of the evaluator: the same number,
\* the same truth value, the encoding 1 / -1 / 0 of the same ternary value
Corresponds(v, j) ==
    CASE v.tag = "Int" -> j = JsNumber(v.val, 1)
      [] v.tag = "Bool" -> j = JsBoolean(v.val)
      [] v.tag = "Ternary" -> j = JsNumber(CASE v.val = "True" -> 1
                                             [] v.val = "False" -> -1
                                             [] v.val = "Unknown" -> 0, 1)
      [] OTHER -> FALSE

\* C13: for a closed deterministic expression over Bool, Int and Ternary
\* literals, whenever eval returns a value the JavaScript generated by codegen
\* for the same expression computes the corresponding value.
C13_GeneratedCodeAgreesWithEval ==
    (/\ host = "eval" /\ status = "done" /\ ~IsErr(ret)
     /\ cg.kind = "expr" /\ cg.pc = "ran"
     /\ Deterministic(expr0, {}))
    => Corresponds(ret, cg.result[1])

-----------------------------------------------------------------------------
(* Layout of the generated code *)

Emitted == cg.kind \in {"expr", "module"} /\ cg.pc \in {"emitted", "ran"}

\* C19: the code produced for an expression or a module is exactly the line
\* `// Generated by betlang`, the line `'use strict';`, an empty line, the
\* runtime preamble once, then the translation of the expression or of the
\* items; nothing precedes the header, the preamble is never omitted or
\* repeated.
C19_HeaderPreambleTranslation ==
    Emitted =>
       /\ Len(cg.out) >= 3
       /\ cg.out[1] = Text("// Generated by betlang\n")
       /\ cg.out[2] = Text("'use strict';\n\n")
       /\ cg.out[3] = js_preamble
       /\ \A i \in 4 .. Len(cg.out) : cg.out[i] # js_preamble
       /\ SubSeq(cg.out, 4, Len(cg.out)) =
             IF cg.kind = "expr"
             THEN <<Code([js |-> "stmt", value |-> emit_js_expr(expr0)]), Text(";\n")>>
             ELSE emit_js_items(cg.items, 1)

\* a module of three items, a function among them, has been translated
C19_Witness ==
    /\ cg.kind = "module" /\ cg.pc = "emitted"
    /\ Len(cg.items) = 3
    /\ \E i \in 1 .. 3 : cg.items[i].item = "Let" /\ cg.items[i].params # <<>>
    /\ Len(cg.out) = 9

\* items i < j both define the constant name
DefinedTwice(items, i, j) ==
    /\ i < j
    /\ items[i].item = "Let" /\ items[i].params = <<>>
    /\ items[j].item = "Let" /\ items[j].params = <<>>
    /\ items[i].name = items[j].name

\* C20: the items are translated in source order, and when a module defines
\* a top-level name twice the generated code loads, and a reference after
\* the second definition yields the later definition's value.
C20_ItemsInOrderLaterShadows ==
    (cg.kind = "module" /\ cg.pc = "ran")
    => /\ \A k \in DOMAIN cg.items :
             /\ cg.out[2 + 2 * k] = emit_js_item(cg.items[k])[1]
             /\ cg.out[3 + 2 * k] = Text("\n")
       /\ \A i, j, k \in DOMAIN cg.items :
             (/\ DefinedTwice(cg.items, i, j)
              /\ j < k /\ k = Len(cg.items)
              /\ cg.items[k] = ItemExpr(ExprVar(cg.items[j].name)))
             => /\ cg.result[1] # JsThrow("SyntaxError")
                /\ cg.result[1] = JsEval(emit_js_expr(cg.items[j].body), <<>>)

-----------------------------------------------------------------------------
(* Inference *)

\* C21: __bet_infer_rejection(modelFn, n) terminates: it invokes modelFn at
\* most 100*n times, every turn of its loop either invokes modelFn or
\* returns, it makes no invocation once n samples are collected, and the
\* array it returns holds only model results that are neither null nor
\* undefined, at most n of them, and fewer than n only when all 100*n
\* attempts have been made
C21_RejectionIsBoundedAndFiltered ==
    [][(host = "infer" /\ infer.fn = "rejection" /\ infer' # infer) =>
          /\ infer'.calls <= MaxAttemptsFactor * infer.n
          /\ infer'.calls > infer.calls => Len(infer.samples) < infer.n
          /\ infer.pc = "loop" => (infer'.calls = infer.calls + 1 \/ infer'.pc = "done")
          /\ infer'.pc = "done" =>
                /\ Len(infer'.samples) <= infer.n
                /\ \A k \in 1 .. Len(infer'.samples) :
                      /\ infer'.samples[k] \in ModelResults
                      /\ infer'.samples[k] \notin {[jv |-> "undefined"], [jv |-> "null"]}
                /\ Len(infer'.samples) < infer.n => infer'.calls = MaxAttemptsFactor * infer.n]_vars

\* rejection has given up after 100*n attempts with some samples, not all
C21_Witness ==
    /\ host = "infer" /\ infer.fn = "rejection" /\ infer.pc = "done"
    /\ 0 < Len(infer.samples) /\ Len(infer.samples) < infer.n
    /\ infer.calls = MaxAttemptsFactor * infer.n

\* C22: __bet_infer_importance(modelFn, n) returns exactly n resampled values,
\* each of them a value returned by one of its n model calls, whatever
\* non-negative weights the calls accumulate
C22_ImportanceReturnsNResamples ==
    (host = "infer" /\ infer.fn = "importance" /\ infer.pc = "done") =>
        /\ infer.calls = infer.n
        /\ Len(infer.resampled) = infer.n
        /\ \A k \in 1 .. Len(infer.resampled) :
              \E j \in 1 .. Len(infer.samples) : infer.resampled[k] = infer.samples[j]

\* the Observe expressions a model evaluates, in evaluation order
RECURSIVE ObservesIn(_)
ObservesIn(e) ==
    CASE e.op = "Observe" -> <<e>>
      [] e.op = "Let" -> ObservesIn(e.value) \o ObservesIn(e.body)
      [] OTHER -> <<>>

\* the density bernoulli(p) gives the observed value; the variable x of a
\* model is the value the trial returns
ObservedDensity(obs, sample) ==
    LET v == IF obs.value.op = "Int" THEN obs.value.i ELSE sample.num
        p == obs.dist.args[1].i
    IN  IF v = 1 THEN p ELSE 1 - p

RECURSIVE DensityProduct(_, _, _)
DensityProduct(observes, sample, k) ==
    IF k > Len(observes) THEN 1
    ELSE ObservedDensity(observes[k], sample) * DensityProduct(observes, sample, k + 1)

\* C26: in the code generated for an Infer with method Importance, every
\* Observe evaluated in a trial adds its log-density to the log-weight of the
\* trial: the weight of a trial is the product of the densities it observed,
\* and a trial of weight 0 is never resampled
C26_ObserveWeighsTheTrial ==
    (host = "infer" /\ infer.fn = "importance" /\ infer.expr # ExprUnit) =>
        /\ \A k \in 1 .. Len(infer.weights) :
              infer.weights[k] = JsNumber(DensityProduct(ObservesIn(infer.expr.model), infer.samples[k], 1), 1)
        /\ \A k \in 1 .. Len(infer.resampled) :
              \E j \in 1 .. Len(infer.samples) :
                 /\ infer.resampled[k] = infer.samples[j]
                 /\ DensityProduct(ObservesIn(infer.expr.model), infer.samples[j], 1) > 0

-----------------------------------------------------------------------------
(* Collections *)

\* the calls replayed on a first-in first-out sequence that starts as fifo:
\* every dequeue returned the head of the sequence, and None exactly when the
\* sequence was empty
RECURSIVE DequeuesAreFifo(_, _, _)
DequeuesAreFifo(calls, k, fifo) ==
    IF k > Len(calls) THEN TRUE
    ELSE IF calls[k].f = "enqueue" THEN DequeuesAreFifo(calls, k + 1, Append(fifo, calls[k].arg[1]))
    ELSE IF fifo = <<>> THEN calls[k].out = <<>> /\ DequeuesAreFifo(calls, k + 1, fifo)
    ELSE calls[k].out = <<Head(fifo)>> /\ DequeuesAreFifo(calls, k + 1, Tail(fifo))

\* C23: the persistent Queue is first-in first-out: whatever enqueues and
\* dequeues follow Queue::new() or Queue::from_list(l), every dequeue returns
\* the element that entered earliest among those not yet dequeued, the
\* elements of l first and in list order, and None exactly when none remains
C23_QueueIsFifo ==
    (host = "data" /\ data.kind = "queue") => DequeuesAreFifo(data.calls, 1, data.list)

\* C24: map::merge(a, b) holds exactly the keys of a and the keys of b; a key
\* of both maps has b's value, a key of one map has that map's value
C24_MergeTakesSecondOnConflict ==
    (host = "data" /\ data.kind = "map" /\ data.out # <<>>) =>
        LET merged == data.out[1]
        IN  /\ DOMAIN merged = DOMAIN data.a \cup DOMAIN data.b
            /\ \A k \in DOMAIN merged :
                  merged[k] = IF k \in DOMAIN data.b THEN data.b[k] ELSE data.a[k]

-----------------------------------------------------------------------------
(* Language server *)

IsWordChar(c) == c \in {"a", "1", "_", "-"}

\* the offset that (line, character) names in text, <<>> for a line past the
\* last line or an offset past the end of the text
OffsetOf(text, line, character) ==
    LET ends == {k \in 1 .. Len(text) : text[k] = "\n"}
        line_start == IF line = 0 THEN 0
                      ELSE CHOOSE k \in ends : Cardinality({j \in ends : j <= k}) = line
    IN  IF line > Cardinality(ends) \/ line_start + character > Len(text) THEN <<>>
        ELSE <<line_start + character>>

\* w is text[from + 1 .. to], a run of word characters that cannot be extended
\* and that the offset lies in or next to
IsMaximalRunAround(text, offset, from, to) ==
    /\ 0 <= from /\ from < to /\ to <= Len(text)
    /\ from <= offset /\ offset <= to
    /\ \A k \in from + 1 .. to : IsWordChar(text[k])
    /\ from = 0 \/ ~IsWordChar(text[from])
    /\ to = Len(text) \/ ~IsWordChar(text[to + 1])

\* C25: word_at_position returns for every text and every position: Some(w)
\* with w the maximal run of word characters around the offset of the
\* position, None when there is no such run or when the position lies
\* outside the document
C25_WordAtPositionIsTotal ==
    (host = "lsp" /\ doc.out # <<>>) =>
        LET r == doc.out[1]
            offset == OffsetOf(doc.source, doc.line, doc.character)
            runs == IF offset = <<>> THEN {}
                    ELSE {ft \in (0 .. Len(doc.source)) \X (0 .. Len(doc.source)) :
                             IsMaximalRunAround(doc.source, offset[1], ft[1], ft[2])}
        IN  /\ r.tag = "Option"
            /\ IF runs = {} THEN r.val = <<>>
               ELSE \E ft \in runs : r.val = <<SubSeq(doc.source, ft[1] + 1, ft[2])>>

-----------------------------------------------------------------------------
(* Generated code: binders and operands *)

\* what the arms of a Match yield from the i-th on for the scrutinee value v:
\* the body of the first arm whose pattern accepts v and whose guard holds,
\* guard and body read with the pattern variable bound to v
RECURSIVE MatchYields(_, _, _)
MatchYields(arms, v, i) ==
    IF i > Len(arms) THEN JsThrow("Error")
    ELSE LET arm == arms[i]
             bound == IF arm.pattern.p = "Var"
                      THEN <<<<sanitize_js_ident(as_str(arm.pattern.sym)), v>>>> ELSE <<>>
             accepts == arm.pattern.p = "Literal" => v = JsNumber(arm.pattern.lit, 1)
             holds == arm.guard = <<>> \/ ToBoolean(JsEval(emit_js_expr(arm.guard[1]), bound))
         IN  IF accepts /\ holds THEN JsEval(emit_js_expr(arm.body), bound)
             ELSE MatchYields(arms, v, i + 1)

\* C27: the code generated for a Match tests the arms in source order, and an
\* arm with a variable pattern and a guard binds the variable to the
\* scrutinee before the guard is evaluated: guard and body see the binding
C27_MatchBindsBeforeGuard ==
    (/\ cg.kind = "module" /\ cg.pc = "ran"
     /\ Len(cg.items) = 1 /\ cg.items[1].item = "Expr" /\ cg.items[1].expr.op = "Match")
    => cg.result[1] = MatchYields(cg.items[1].expr.arms, JsNumber(cg.items[1].expr.scrutinee.i, 1), 1)

\* the number of places of the tree node where the tree sub stands
RECURSIVE Occurrences(_, _)
Occurrences(node, sub) ==
    IF node = sub THEN 1
    ELSE LET InArgs[i \in 0 .. (IF node.js \in {"call", "apply"} THEN Len(node.args) ELSE 0)] ==
                 IF i = 0 THEN 0 ELSE InArgs[i - 1] + Occurrences(node.args[i], sub)
         IN  CASE node.js = "infix" -> Occurrences(node.lhs, sub) + Occurrences(node.rhs, sub)
               [] node.js = "cond" ->
                     Occurrences(node.test, sub) + Occurrences(node.then, sub)
                     + Occurrences(node.otherwise, sub)
               [] node.js = "lambda" -> Occurrences(node.result, sub)
               [] node.js = "call" -> InArgs[Len(node.args)]
               [] node.js = "apply" -> Occurrences(node.callee, sub) + InArgs[Len(node.args)]
               [] node.js \in {"num", "id"} -> 0

\* C29: in the code generated for a BinOp each operand is emitted once, and
\* evaluating the operator evaluates each operand once, so that a bet in an
\* operand is drawn once; for every operator, xor and >> among them (the
\* function that >> yields is not called here, so its draws are not counted)
C29_OperandsEmittedAndEvaluatedOnce ==
    (/\ cg.kind = "module" /\ cg.pc \in {"emitted", "ran"}
     /\ Len(cg.items) = 1 /\ cg.items[1].item = "Expr" /\ cg.items[1].expr.op = "BinOp")
    => LET e == cg.items[1].expr
           tree == CodeOf(cg.out, 1)[1].value
           Bets(operand) == IF operand.op = "Bet" THEN 1 ELSE 0
       IN  /\ Occurrences(tree, emit_js_expr(e.lhs)) = 1
           /\ Occurrences(tree, emit_js_expr(e.rhs)) = 1
           /\ (cg.pc = "ran" /\ e.bop # "Compose")
              => Len(SelectSeq(JsCalls(tree, <<<<<<"Math.random">>, JsNumber(cg.draw[1], 3)>>>>),
                               LAMBDA c : c.fn = "__bet_uniform"))
                 = Bets(e.lhs) + Bets(e.rhs)

\* the names that the code declares: of a const, of a function and of its
\* parameters, of the const of a block
RECURSIVE JsBinders(_)
JsBinders(node) ==
    CASE node.js = "stmt" -> JsBinders(node.value)
      [] node.js = "const" -> {node.name} \cup JsBinders(node.value)
      [] node.js = "function" ->
            {node.name} \cup {node.params[i] : i \in DOMAIN node.params} \cup JsBinders(node.result)
      [] node.js = "lambda" -> {node.params[i] : i \in DOMAIN node.params} \cup JsBinders(node.result)
      [] node.js = "apply" ->
            JsBinders(node.callee) \cup UNION {JsBinders(node.args[i]) : i \in DOMAIN node.args}
      [] node.js = "let" -> {node.pattern} \cup JsBinders(node.value) \cup JsBinders(node.result)
      [] node.js = "match" ->
            {node.scrutinee_var} \cup JsBinders(node.value)
            \cup UNION {{node.arms[i].bindings[k] : k \in DOMAIN node.arms[i].bindings}
                        \cup JsBinders(node.arms[i].test) \cup JsBinders(node.arms[i].result) :
                           i \in DOMAIN node.arms}
      [] node.js \in {"num", "bool", "id"} -> {}

\* the names that the code refers to
RECURSIVE JsReferences(_)
JsReferences(node) ==
    CASE node.js = "id" -> {node.name}
      [] node.js \in {"stmt", "const"} -> JsReferences(node.value)
      [] node.js \in {"function", "lambda"} -> JsReferences(node.result)
      [] node.js = "apply" ->
            JsReferences(node.callee) \cup UNION {JsReferences(node.args[i]) : i \in DOMAIN node.args}
      [] node.js = "let" -> JsReferences(node.value) \cup JsReferences(node.result)
      [] node.js = "match" ->
            JsReferences(node.value)
            \cup UNION {JsReferences(node.arms[i].test) \cup JsReferences(node.arms[i].result) :
                           i \in DOMAIN node.arms}
      [] node.js \in {"num", "bool"} -> {}

\* C30: an identifier is emitted under the same JavaScript name where it is
\* bound (Lambda parameter, top-level let or function name and parameter, Let
\* pattern, Match arm) and where a Var refers to it, so the reference
\* resolves to the binder: every name the code refers to is a name it
\* declares, and the program that yields the bound 1 does so when run;
\* reserved JavaScript words among the identifiers
C30_BinderAndReferenceAgree ==
    (cg.kind = "module" /\ cg.pc \in {"emitted", "ran"} /\ cg.items \in BinderModules)
    => LET stmts == CodeOf(cg.out, 1)
       IN  /\ UNION {JsReferences(stmts[i]) : i \in DOMAIN stmts}
                \subseteq UNION {JsBinders(stmts[i]) : i \in DOMAIN stmts}
           /\ cg.pc = "ran" => cg.result[1] = JsNumber(1, 1)

-----------------------------------------------------------------------------
(* Integer arithmetic *)

\* C28: eval_binop does not abort on Int operands: for + - * / % and all Int
\* operands, a zero divisor of %, an overflowing sum, difference or product
\* and i64::MIN / -1 among them, it returns an Int or a Runtime error
C28_IntArithmeticNeverAborts ==
    (/\ host = "eval"
     /\ expr0.op = "BinOp" /\ expr0.bop \in {"Add", "Sub", "Mul", "Div", "Mod"}
     /\ expr0.lhs.op = "Int" /\ expr0.rhs.op = "Int")
    => /\ status # "panic"
       /\ status = "done" => (ret.tag = "Int" \/ (IsErr(ret) /\ ret.val.kind = "Runtime"))

====
